---- MODULE Spec2Model ----
(***************************************************************************)
(* A model of github.com/jfcote87/intacct: the response decoder            *)
(* (response.go), the executor and the Session authenticator (intacct.go), *)
(* the pagination loops (functions.go, contact.go), the ResultMap          *)
(* (resultmap.go) and the Filter of a Query (contact.go).                  *)
(*                                                                         *)
(* Go slices are 0-based, TLA+ sequences 1-based: position i of the Go     *)
(* code is position i+1 here.  The Go nil error is the string "nil", the   *)
(* empty Go string is "".                                                  *)
(***************************************************************************)
EXTENDS Integers, Sequences, FiniteSets, TLC

VARIABLES
    \* ---- response decoder (response.go)
    resp,          \* the parsed *Response
    returnValues,  \* the targets passed to Response.Decode, as they are now
    rv0,           \* the targets as they were passed
    decOut,        \* what the last call on resp returned
    msg,           \* what Error() of the returned ResultsError returned
    \* ---- Session shared by concurrent callers (intacct.go)
    sess,          \* the Session's fields
    lock,          \* holder of Session.m, 0 when free
    pc,            \* each caller's position in its Exec call
    now,           \* time.Now(), in ticks
    refreshes,     \* RefreshFunc invocations so far
    chk,           \* each caller's last staleness check (a ghost)
    loc,           \* each caller's local variables
    \* ---- one ExecWithControl call (intacct.go)
    ex,            \* the call: its arguments, position and return values
    sent,          \* the requests handed to the transport, in order
    \* ---- one GetAll call (functions.go, contact.go)
    pg,            \* the call: its receiver, position and return value
    calls,         \* the functions passed to Exec, in order
    pages,         \* the Results the server returned, in order (a ghost)
    acc,           \* the caller's resultSlice
    \* ---- one ResultMap being decoded and read (resultmap.go)
    doc,           \* the child elements the decoder has met, in order (a ghost)
    rm,            \* the ResultMap
    decoded,       \* UnmarshalXML has returned
    ra,            \* what the last ReadArray call returned
    \* ---- one Filter of a Query (contact.go)
    flt,           \* the *Filter the Query holds
    heap,          \* the backing arrays of the []Filter slices
    groups,        \* the pointers And() and Or() returned, in order
    adds,          \* the criteria calls, in order (a ghost)
    xmlOut         \* what xml.Marshal wrote for Query.Filter

decVars == <<resp, returnValues, rv0, decOut, msg>>
sessVars == <<sess, lock, pc, now, refreshes, chk, loc>>
execVars == <<ex, sent>>
pageVars == <<pg, calls, pages, acc>>

vars == <<resp, returnValues, rv0, decOut, msg, sess, lock, pc, now, refreshes, chk,
          loc, ex, sent, pg, calls, pages, acc,
         doc, rm, decoded, ra, flt, heap, groups, adds, xmlOut>>
mapVars == <<doc, rm, decoded, ra>>
filterVars == <<flt, heap, groups, adds, xmlOut>>

(***************************************************************************)
(* Bounds of the model.                                                    *)
(***************************************************************************)
MaxResults == 2    \* Results per Response
MaxRows == 2       \* well-formed elements per payload
MaxErrs == 1       \* ErrorDetails per Result
NumCallers == 2    \* goroutines sharing one Session
MaxTime == 2       \* the clock runs from 1 to MaxTime
MaxRefresh == 2    \* RefreshFunc invocations
Margin == 1        \* the ExpiryDelta of a Session that has one
SessionLife == 2   \* a server's session timeout lies this far ahead
MaxFuncs == 2      \* functions per Exec call
MaxPages == 3      \* Exec calls per GetAll
MaxRemaining == 2  \* the largest numremaining a server reports
MaxChildren == 3   \* child elements of the element a ResultMap decodes
MaxDepth == 2      \* segments of the name passed to ReadArray
MaxGroups == 3     \* And() and Or() calls on one Filter
MaxCriteria == 3   \* criteria calls on one Filter and its groups

(***************************************************************************)
(* response.go: Result, ResultData, targets.                               *)
(*                                                                         *)
(* A payload is the elements Result.Decode reads from it: `rows`, the      *)
(* elements that decode, followed (when `bad`) by one that does not        *)
(* (malformed XML or an element that does not fit the target); what        *)
(* follows a failing element is never read.  A row <<p, j>> is element j   *)
(* of the payload of page/position p.                                      *)
(***************************************************************************)
NoPayload == [rows |-> <<>>, bad |-> FALSE]

\* A Result without errors.  HasData = FALSE is Data == nil (no <data> element).
MkResult(errs, hasData, payload, remaining, resultID) ==
    [Errors |-> errs, HasData |-> hasData, Payload |-> payload,
     NumRemaining |-> remaining, ResultID |-> resultID]

ErrorLists == {[k \in 1..n |-> "srv"] : n \in 1..MaxErrs}

Payloads(p) ==
    {[rows |-> [j \in 1..n |-> <<p, j>>], bad |-> b] : n \in 0..MaxRows, b \in BOOLEAN}

\* The Results a server can put at position p of a Response.
ResultsAt(p) ==
    {MkResult(e, FALSE, NoPayload, 0, 0) : e \in ErrorLists}
        \cup {MkResult(<<>>, FALSE, NoPayload, 0, 0)}
        \cup {MkResult(<<>>, TRUE, pl, 0, 0) : pl \in Payloads(p)}

\* A target of Decode: an untyped nil, something that is no non-nil pointer,
\* a *[]S holding val, or a *S (val is <<>> while unset).
OldRow == <<0, 0>>
PartialRow == <<0, 1>>
Targets ==
    {[kind |-> "nil", val |-> <<>>], [kind |-> "nonptr", val |-> <<>>],
     [kind |-> "slice", val |-> <<>>], [kind |-> "slice", val |-> <<OldRow>>],
     [kind |-> "single", val |-> <<>>]}

Responses ==
    UNION {{[ErrorMsg |-> c, OpError |-> o,
             Results |-> [p \in 1..n |-> f[p]]] :
               f \in {g \in [1..n -> UNION {ResultsAt(p) : p \in 1..n}] :
                        \A p \in 1..n : g[p] \in ResultsAt(p)},
               c \in BOOLEAN, o \in BOOLEAN} : n \in 0..MaxResults}

TargetLists == UNION {[1..m -> Targets] : m \in 0..MaxResults}

(***************************************************************************)
(* response.go: Response.execErr                                           *)
(***************************************************************************)
execErrNoOp(r) ==
    IF r.ErrorMsg THEN "ControlError" ELSE "nil"

execErr(r) ==
    IF r.ErrorMsg THEN "ControlError"
    ELSE IF r.OpError THEN "OperationError"
    ELSE "nil"

(***************************************************************************)
(* response.go: Result.Decode.  `fault` is the nil dereference of          *)
(* r.Data.Payload when the Result has no data element.                     *)
(***************************************************************************)
\* Result.Decode that stores the payload's elements in place of the slice.
ResultDecodeReplace(r, dst) ==
    IF Len(r.Errors) > 0
        THEN [err |-> "ResultsError", dst |-> dst, fault |-> FALSE]
    ELSE IF dst.kind = "nil"
        THEN [err |-> "nil", dst |-> dst, fault |-> FALSE]
    ELSE IF dst.kind = "nonptr"
        THEN [err |-> "expected a non-nil ptr", dst |-> dst, fault |-> FALSE]
    ELSE IF ~r.HasData
        THEN [err |-> "nil", dst |-> dst, fault |-> TRUE]
    ELSE IF dst.kind = "slice"
        THEN [err |-> IF r.Payload.bad THEN "element" ELSE "nil",
              dst |-> [dst EXCEPT !.val = r.Payload.rows],
              fault |-> FALSE]
    ELSE IF Len(r.Payload.rows) > 0
        THEN [err |-> "nil", dst |-> [dst EXCEPT !.val = <<r.Payload.rows[1]>>],
              fault |-> FALSE]
    ELSE IF r.Payload.bad
        THEN [err |-> "element", dst |-> [dst EXCEPT !.val = <<PartialRow>>],
              fault |-> FALSE]
    ELSE [err |-> "EOF", dst |-> dst, fault |-> FALSE]

\* Result.Decode that puts the payload's elements before those of the slice
\* and takes the last element for a single value.
ResultDecodePrepend(r, dst) ==
    IF Len(r.Errors) > 0
        THEN [err |-> "ResultsError", dst |-> dst, fault |-> FALSE]
    ELSE IF dst.kind = "nil"
        THEN [err |-> "nil", dst |-> dst, fault |-> FALSE]
    ELSE IF dst.kind = "nonptr"
        THEN [err |-> "expected a non-nil ptr", dst |-> dst, fault |-> FALSE]
    ELSE IF ~r.HasData
        THEN [err |-> "nil", dst |-> dst, fault |-> TRUE]
    ELSE IF dst.kind = "slice"
        THEN [err |-> IF r.Payload.bad THEN "element" ELSE "nil",
              dst |-> [dst EXCEPT !.val = r.Payload.rows \o @],
              fault |-> FALSE]
    ELSE IF Len(r.Payload.rows) > 0
        THEN [err |-> "nil",
              dst |-> [dst EXCEPT !.val = <<r.Payload.rows[Len(r.Payload.rows)]>>],
              fault |-> FALSE]
    ELSE IF r.Payload.bad
        THEN [err |-> "element", dst |-> [dst EXCEPT !.val = <<PartialRow>>],
              fault |-> FALSE]
    ELSE [err |-> "EOF", dst |-> dst, fault |-> FALSE]

ResultDecode(r, dst) ==
    IF Len(r.Errors) > 0
        THEN [err |-> "ResultsError", dst |-> dst, fault |-> FALSE]
    ELSE IF dst.kind = "nil"
        THEN [err |-> "nil", dst |-> dst, fault |-> FALSE]
    ELSE IF dst.kind = "nonptr"
        THEN [err |-> "expected a non-nil ptr", dst |-> dst, fault |-> FALSE]
    ELSE IF ~r.HasData
        THEN [err |-> "nil", dst |-> dst, fault |-> TRUE]
    ELSE IF dst.kind = "slice"
        THEN [err |-> IF r.Payload.bad THEN "element" ELSE "nil",
              dst |-> [dst EXCEPT !.val = @ \o r.Payload.rows],
              fault |-> FALSE]
    ELSE IF Len(r.Payload.rows) > 0
        THEN [err |-> "nil", dst |-> [dst EXCEPT !.val = <<r.Payload.rows[1]>>],
              fault |-> FALSE]
    ELSE IF r.Payload.bad
        THEN [err |-> "element", dst |-> [dst EXCEPT !.val = <<PartialRow>>],
              fault |-> FALSE]
    ELSE [err |-> "EOF", dst |-> dst, fault |-> FALSE]

(***************************************************************************)
(* response.go: Response.Decode.  st is the state of the loop: errResult,  *)
(* hasError, the targets, the positions Result.Decode was called on (a     *)
(* ghost) and whether the call faulted.                                    *)
(***************************************************************************)
DecodeErrorDetail == <<"Decode Error">>

\* Response.Decode's loop, were it to end at the first Result with errors.
RECURSIVE DecodeLoopStopAtError(_, _, _)
DecodeLoopStopAtError(r, idx, st) ==
    IF idx > Len(r.Results) \/ st.fault THEN st
    ELSE LET result == r.Results[idx] IN
        IF Len(result.Errors) > 0
            THEN [st EXCEPT !.hasError = TRUE, !.errResult[idx] = result.Errors]
        ELSE IF Len(st.rv) < idx \/ st.rv[idx].kind = "nil"
            THEN DecodeLoopStopAtError(r, idx + 1, st)
        ELSE LET d == ResultDecode(result, st.rv[idx])
                 st1 == [st EXCEPT !.rv[idx] = d.dst,
                                   !.attempted = @ \cup {idx},
                                   !.fault = d.fault]
             IN IF d.err # "nil"
                    THEN DecodeLoopStopAtError(r, idx + 1,
                            [st1 EXCEPT !.hasError = TRUE,
                                        !.errResult[idx] = DecodeErrorDetail])
                    ELSE DecodeLoopStopAtError(r, idx + 1, st1)

RECURSIVE DecodeLoop(_, _, _)
DecodeLoop(r, idx, st) ==
    IF idx > Len(r.Results) \/ st.fault THEN st
    ELSE LET result == r.Results[idx] IN
        IF Len(result.Errors) > 0
            THEN DecodeLoop(r, idx + 1,
                    [st EXCEPT !.hasError = TRUE, !.errResult[idx] = result.Errors])
        ELSE IF Len(st.rv) < idx \/ st.rv[idx].kind = "nil"
            THEN DecodeLoop(r, idx + 1, st)
        ELSE LET d == ResultDecode(result, st.rv[idx])
                 st1 == [st EXCEPT !.rv[idx] = d.dst,
                                   !.attempted = @ \cup {idx},
                                   !.fault = d.fault]
             IN IF d.err # "nil"
                    THEN DecodeLoop(r, idx + 1,
                            [st1 EXCEPT !.hasError = TRUE,
                                        !.errResult[idx] = DecodeErrorDetail])
                    ELSE DecodeLoop(r, idx + 1, st1)

DecodeStart(r, rv) ==
    [errResult |-> [i \in 1..Len(r.Results) |-> <<>>], hasError |-> FALSE,
     rv |-> rv, attempted |-> {}, fault |-> FALSE]

ResponseDecode(r, rv) ==
    IF execErr(r) # "nil"
        THEN [op |-> "Decode", ret |-> execErr(r), errs |-> <<>>, rv |-> rv,
              attempted |-> {}]
    ELSE LET st == DecodeLoop(r, 1, DecodeStart(r, rv)) IN
        [op |-> "Decode",
         ret |-> IF st.fault THEN "fault"
                 ELSE IF st.hasError THEN "ResultsError" ELSE "nil",
         errs |-> IF ~st.fault /\ st.hasError THEN st.errResult ELSE <<>>,
         rv |-> st.rv, attempted |-> st.attempted]

(***************************************************************************)
(* response.go: Response.Error                                             *)
(***************************************************************************)
ResponseError(r, rv) ==
    IF execErr(r) # "nil"
        THEN [op |-> "Error", ret |-> execErr(r), errs |-> <<>>, rv |-> rv,
              attempted |-> {}]
    ELSE LET any == \E i \in 1..Len(r.Results) : Len(r.Results[i].Errors) > 0 IN
        [op |-> "Error",
         ret |-> IF any THEN "ResultsError" ELSE "nil",
         errs |-> IF any THEN [i \in 1..Len(r.Results) |-> r.Results[i].Errors]
                  ELSE <<>>,
         rv |-> rv, attempted |-> {}]

(***************************************************************************)
(* response.go: ErrorDetail.errString and ResultsError.Error.  A message   *)
(* is the sequence of the pieces written to it: a piece is labelled with   *)
(* "result[pos]" (pos counted from 0, as in the code) or not, and begins   *)
(* with the separator " | " or not.  The ErrorDetail that Response.Decode  *)
(* makes for a failed decode is the only one whose Err is set.             *)
(***************************************************************************)
NoPrefix == [set |-> FALSE, sep |-> FALSE, pos |-> 0]

\* errString that puts the prefix before every ErrorDetail.
errStringLabelled(e, prefix) ==
    [labelled |-> TRUE, sep |-> prefix.sep, pos |-> prefix.pos, text |-> e]

errString(e, prefix) ==
    IF e = DecodeErrorDetail[1]
        THEN [labelled |-> FALSE, sep |-> FALSE, pos |-> 0, text |-> "Err"]
        ELSE [labelled |-> TRUE, sep |-> prefix.sep, pos |-> prefix.pos, text |-> e]

RECURSIVE ErrorLoop(_, _, _, _)
ErrorLoop(re, idx, prefix, m) ==
    IF idx > Len(re) THEN m
    ELSE IF Len(re[idx]) > 0
        THEN LET p == [set |-> TRUE, sep |-> prefix.set, pos |-> idx - 1] IN
             ErrorLoop(re, idx + 1, p, Append(m, errString(re[idx][1], p)))
        ELSE ErrorLoop(re, idx + 1, prefix, m)

ResultsErrorError(re) == ErrorLoop(re, 1, NoPrefix, <<>>)

\* No call made on resp yet.
NoCall == [op |-> "none", ret |-> "nil", errs |-> <<>>, rv |-> <<>>, attempted |-> {}]

(***************************************************************************)
(* intacct.go: Session.  ID 0 is the empty SessionID, Endpoint 0 the empty *)
(* string; the k-th RefreshFunc invocation returns SessionID, Endpoint and *)
(* LocationID k+1 (1 is what the configuration held).  0 is the zero       *)
(* time.Time, and ExpiryDelta is counted in ticks of the clock.            *)
(***************************************************************************)
Callers == 1..NumCallers

DefaultEndpoint == 0

\* ResponseAuth.getTimeout: the zero time without an authentication block.
getTimeout(r) ==
    IF ~r.hasAuth THEN 0 ELSE r.SessionTimeout

\* The condition of GetAuthElement under which it calls Refresh:
\*   len(s.ID) == 0 || curTime.Sub(s.Expires) < 0,
\* curTime being time.Now() plus ExpiryDelta seconds.
NeedsRefresh(s, t) ==
    s.ID = 0 \/ (t + s.ExpiryDelta) - s.Expires < 0

\* Session.GetEndpoint
GetEndpoint(s) ==
    IF s.Endpoint = 0 THEN DefaultEndpoint ELSE s.Endpoint

\* CheckResponse that stores every timeout a response echoes.
CheckResponseExpiresEchoed(s, r) ==
    IF r.isNil THEN s.Expires
    ELSE IF getTimeout(r) # 0 THEN getTimeout(r) ELSE s.Expires

\* Session.CheckResponse: the Expires it leaves.
CheckResponseExpires(s, r) ==
    IF r.isNil THEN s.Expires
    ELSE IF getTimeout(r) - s.Expires > 0 THEN getTimeout(r) ELSE s.Expires

\* The session timeouts a server reports at time t: none, or one ahead of t.
ServerTimeouts(t) == {0, t + SessionLife}

\* sync.Mutex.Lock returns to caller c only when no one holds the mutex.
LockAlways(c) == TRUE

\* A nested call that asks the Session for its credential: it waits for the
\* mutex the caller of Refresh holds.
NestedExecLocksSession(c) == lock = 0

\* The nested ExecWithControl of Login.SessionRefresher runs on a Service
\* whose Authenticator is the Login: Login.GetAuthElement takes no lock, and
\* a Login is no AuthResponseChecker, so CheckResponse is not called.
NestedExecRuns(c) == TRUE

LockFree(c) == lock = 0

Sign(x) == IF x < 0 THEN -1 ELSE IF x > 0 THEN 1 ELSE 0

NoResult == [SessionID |-> 0, Endpoint |-> 0, LocationID |-> 0, Expires |-> 0]
NoLocals == [err |-> "nil", tok |-> 0, ep |-> 0, res |-> NoResult, timeout |-> 0]
NoCheck == [valid |-> FALSE, id |-> 0, cmp |-> 0, did |-> FALSE]
NoSession == [ID |-> 0, Endpoint |-> 0, LocationID |-> 0, Expires |-> 0,
              ExpiryDelta |-> 0, hasRefreshFunc |-> FALSE]

\* A Session as configured: no token, or token 1 with some expiry.
Sessions ==
    {[ID |-> id, Endpoint |-> id, LocationID |-> id,
      Expires |-> IF id = 0 THEN 0 ELSE exp,
      ExpiryDelta |-> d, hasRefreshFunc |-> f] :
        id \in {0, 1}, exp \in {0, MaxTime}, d \in {0, Margin}, f \in BOOLEAN}

(***************************************************************************)
(* intacct.go: Service, the Authenticators, the request.                   *)
(***************************************************************************)
\* The Authenticator of a Service: none, a *Login, a nil *Login, a SessionID,
\* an empty SessionID, or a *Session (the variable sess).
AuthKinds == {"nil", "Login", "NilLogin", "SessionID", "EmptySessionID", "Session"}

LoginElement == [kind |-> "login", id |-> 0]
SessionElement(id) == [kind |-> "sessionid", id |-> id]

\* Service.validate that looks at the context before the credentials.
validateContextFirst(sv, ctxNil, f) ==
    IF sv.isNil THEN "nil Service"
    ELSE IF sv.Authenticator = "nil" THEN "nil Authenticator"
    ELSE IF ctxNil THEN "nil context"
    ELSE IF sv.SenderID = "" \/ sv.Password = "" THEN "SendorID/Passowrd is empty"
    ELSE IF Len(f) = 0 THEN "no functions specified"
    ELSE "nil"

\* Service.validate
validate(sv, ctxNil, f) ==
    IF sv.isNil THEN "nil Service"
    ELSE IF sv.Authenticator = "nil" THEN "nil Authenticator"
    ELSE IF sv.SenderID = "" \/ sv.Password = "" THEN "SendorID/Passowrd is empty"
    ELSE IF ctxNil THEN "nil context"
    ELSE IF Len(f) = 0 THEN "no functions specified"
    ELSE "nil"

\* Login.GetAuthElement and SessionID.GetAuthElement
SimpleAuthElement(kind) ==
    IF kind = "Login" THEN [err |-> "nil", el |-> LoginElement]
    ELSE IF kind = "NilLogin"
        THEN [err |-> "userid/password not set", el |-> LoginElement]
    ELSE IF kind = "SessionID" THEN [err |-> "nil", el |-> SessionElement(1)]
    ELSE [err |-> "empty sessionid", el |-> SessionElement(0)]

\* getEndpoint that asks no Authenticator.
getEndpointDefault(kind, s) == DefaultEndpoint

\* getEndpoint: only a Session has a GetEndpoint method.
getEndpoint(kind, s) ==
    IF kind = "Session" THEN GetEndpoint(s) ELSE DefaultEndpoint

\* ControlIDFunc.ID: the time-based id of a nil ControlIDFunc, or the id the
\* configured function generates.
ID(idFunc) ==
    IF idFunc = "nil" THEN "time" ELSE "generated"

\* isEmpty that never falls back to the default.
isEmptyKeep(val, defaultVal) == val

isEmpty(val, defaultVal) ==
    IF val = "" THEN defaultVal ELSE val

\* Service.Control: the ControlID of the request's control element.
Control(sv, cc) ==
    IF cc.isNil THEN [ControlID |-> ID(sv.idFunc)]
    ELSE [ControlID |-> cc.ControlID]

\* makeRequest: the request built for functions f, given the credential.
makeRequest(sv, cc, f, authElement, s) ==
    LET control == Control(sv, cc) IN
    [Cmd |-> "functions",
     ControlID |-> control.ControlID,
     Auth |-> authElement,
     Content |-> [i \in 1..Len(f) |-> isEmpty(f[i], control.ControlID)],
     Endpoint |-> getEndpoint(sv.Authenticator, s)]

\* The request of the ExecWithControl call in Login.SessionRefresher: a copy
\* of the Service with the Login as its Authenticator, no ControlConfig, one
\* Writer with Cmd getAPISession and no control id.
SessionRequest(sv) ==
    [makeRequest([sv EXCEPT !.Authenticator = "Login"],
                 [isNil |-> TRUE, ControlID |-> ""], <<"">>, LoginElement, NoSession)
        EXCEPT !.Cmd = "getAPISession"]

\* What ExecWithControl returns once the response has parsed.
ExecResultAnyError(r) ==
    [hasResp |-> TRUE, err |-> ResponseError(r, <<>>).ret]

ExecResult(r) ==
    [hasResp |-> TRUE, err |-> execErr(r)]

\* Session.Refresh: the fields it assigns from the SessionResult.
Refresh(s, res) ==
    [s EXCEPT !.ID = res.SessionID, !.Endpoint = res.Endpoint,
              !.LocationID = res.LocationID, !.Expires = res.Expires]

\* A parsed response: the envelope's errors, its Results and the session
\* timeout of its authentication block (0 without one).
Reply(c, o, results, tm) ==
    [isNil |-> FALSE, ErrorMsg |-> c, OpError |-> o, Results |-> results,
     hasAuth |-> tm # 0, SessionTimeout |-> tm]

OneRow == [rows |-> <<<<1, 1>>>>, bad |-> FALSE]

\* The responses to a call, as far as ExecWithControl looks at them.
ExecReplies(t) ==
    {Reply(c, o, rs, tm) :
        c \in BOOLEAN, o \in BOOLEAN, tm \in ServerTimeouts(t) \cup {t},
        rs \in {<<>>, <<MkResult(<<"srv">>, FALSE, NoPayload, 0, 0)>>,
                <<MkResult(<<>>, TRUE, OneRow, 0, 0)>>}}

\* How a request ends: it is not marshalled, the transport fails, the status
\* is not 2xx, the body does not parse, or a response is parsed.
Failures == {"Marshal Request", "transport", "not success", "parse"}
Outcome(kind, r) == [kind |-> kind, r |-> r]
NoReply == Reply(FALSE, FALSE, <<>>, 0)
ExecOutcomes(t) ==
    {Outcome(k, NoReply) : k \in Failures}
        \cup {Outcome("reply", r) : r \in ExecReplies(t)}

\* The responses to getAPISession: a control error, no Result, a Result with
\* errors, a Result without data, or a Result holding the new session.
SessionOutcomes(t) ==
    {Outcome(k, NoReply) : k \in Failures \ {"Marshal Request"}}
        \cup {Outcome("reply", Reply(TRUE, FALSE, <<>>, 0)),
              Outcome("reply", Reply(FALSE, FALSE, <<>>, 0)),
              Outcome("reply", Reply(FALSE, FALSE,
                        <<MkResult(<<"srv">>, FALSE, NoPayload, 0, 0)>>, 0)),
              Outcome("reply", Reply(FALSE, FALSE,
                        <<MkResult(<<>>, FALSE, NoPayload, 0, 0)>>, 0))}
        \cup {Outcome("reply", Reply(FALSE, FALSE,
                        <<MkResult(<<>>, TRUE, OneRow, 0, 0)>>, tm)) :
                 tm \in ServerTimeouts(t)}

\* A refresher that reports no error of its ExecWithControl call or decode.
SessionRefresherNoError(o, k) ==
    [err |-> "nil", res |-> NoResult, fault |-> FALSE]

\* The function Login.SessionRefresher returns, applied to the outcome of its
\* ExecWithControl call; k is the number of this invocation.  The result is
\* decoded into &result, a pointer to a *SessionResult.
SessionRefresher(o, k) ==
    IF o.kind # "reply" THEN [err |-> o.kind, res |-> NoResult, fault |-> FALSE]
    ELSE IF execErr(o.r) # "nil"
        THEN [err |-> execErr(o.r), res |-> NoResult, fault |-> FALSE]
    ELSE LET d == ResponseDecode(o.r, <<[kind |-> "single", val |-> <<>>]>>)
             id == IF d.rv[1].val # <<>> THEN k + 1 ELSE 0
         IN [err |-> IF d.ret = "fault" THEN "nil" ELSE d.ret,
             res |-> [SessionID |-> id, Endpoint |-> id, LocationID |-> id,
                      Expires |-> getTimeout(o.r)],
             fault |-> d.ret = "fault"]

Services ==
    {[isNil |-> TRUE, Authenticator |-> "nil", SenderID |-> "", Password |-> "",
      idFunc |-> "nil"]}
        \cup [isNil : {FALSE}, Authenticator : AuthKinds, SenderID : {"", "sender"},
              Password : {"", "secret"}, idFunc : {"nil", "custom"}]

ControlConfigs ==
    {[isNil |-> TRUE, ControlID |-> ""], [isNil |-> FALSE, ControlID |-> ""],
     [isNil |-> FALSE, ControlID |-> "config"]}

\* The functions of a call, each by its own control id.
FunctionLists == UNION {[1..n -> {"", "own"}] : n \in 0..MaxFuncs}

NoReturn == [hasResp |-> FALSE, err |-> "nil"]
NoExec ==
    [sv |-> [isNil |-> TRUE, Authenticator |-> "nil", SenderID |-> "",
             Password |-> "", idFunc |-> "nil"],
     ctxNil |-> FALSE, cc |-> [isNil |-> TRUE, ControlID |-> ""], f |-> <<>>,
     pc |-> "call", ret |-> NoReturn, el |-> LoginElement, gotAuth |-> FALSE,
     outcome |-> "none", reply |-> NoReply, refresh |-> Outcome("none", NoReply)]

(***************************************************************************)
(* functions.go, contact.go: the functions GetAll passes to Exec.  A       *)
(* Reader is its XMLName.Local (fn) and ResultID, a Query its Offset and   *)
(* PageSz.                                                                 *)
(***************************************************************************)
Function(fn, resultID, offset, pageSz) ==
    [fn |-> fn, ResultID |-> resultID, Offset |-> offset, PageSz |-> pageSz]

\* functions.go: ReadMore
ReadMore(resultID) == Function("readMore", resultID, 0, 0)

\* Reader.GetAll: the function of the next call after response r, if any.
NextReaderOffByOne(r) ==
    IF Len(r.Results) > 0 /\ r.Results[1].HasData /\ r.Results[1].NumRemaining > 1
        THEN [more |-> TRUE, rptr |-> ReadMore(r.Results[1].ResultID)]
        ELSE [more |-> FALSE, rptr |-> ReadMore(0)]

NextReader(r) ==
    IF Len(r.Results) > 0 /\ r.Results[1].HasData /\ r.Results[1].NumRemaining > 0
        THEN [more |-> TRUE, rptr |-> ReadMore(r.Results[1].ResultID)]
        ELSE [more |-> FALSE, rptr |-> ReadMore(0)]

\* Query.GetAll: pgsz
DefaultPageSize == 100
PageSize(q) == IF q.PageSz = 0 THEN DefaultPageSize ELSE q.PageSz

\* Query.GetAll: q.Offset += pgsz
AdvanceByPageSz(q, pgsz) == [q EXCEPT !.Offset = @ + q.PageSz]

Advance(q, pgsz) == [q EXCEPT !.Offset = @ + pgsz]

\* What Exec returns for the call of page p: an error (of the transport or
\* of the envelope), or a Response with no Result, with a Result that has
\* errors, with a Result without data, or with a Result whose data holds
\* rows <<p, 1>>, <<p, 2>>, ..., a remaining count and resultId p.
\* The remaining counts a server reports: none, one, or the largest.
Remainings == {0, 1, MaxRemaining}
PageReply(result) == Reply(FALSE, FALSE, result, 0)
PageOutcomes(p) ==
    {Outcome("transport", NoReply), Outcome("OperationError", NoReply),
     Outcome("reply", PageReply(<<>>)),
     Outcome("reply", PageReply(<<MkResult(<<"srv">>, FALSE, NoPayload, 0, 0)>>)),
     Outcome("reply", PageReply(<<MkResult(<<>>, FALSE, NoPayload, 0, 0)>>))}
        \cup {Outcome("reply", PageReply(<<MkResult(<<>>, TRUE, pl, rem, p)>>)) :
                 pl \in Payloads(p), rem \in Remainings}

\* The receivers of GetAll and the resultSlice arguments.
Readers == {Function(fn, 0, 0, 0) : fn \in {"read", "readByQuery"}} \cup {ReadMore(MaxPages + 1)}
Queries == {Function("query", 0, off, sz) : off \in {0, 5}, sz \in {0, 2}}
Accumulators ==
    {[kind |-> "slice", val |-> <<>>], [kind |-> "slice", val |-> <<OldRow>>],
     [kind |-> "nil", val |-> <<>>]}

NoGetAll ==
    [kind |-> "Reader", caller |-> ReadMore(0), q |-> ReadMore(0), pc |-> "call",
     err |-> "nil", acc0 |-> [kind |-> "nil", val |-> <<>>]]

(***************************************************************************)
(* resultmap.go: a ResultMap is a map from keys to values.  A key is a tag, *)
(* "@" and an attribute's name, or "" for character data; a value is a     *)
(* string, a []string, a ResultMap or a []ResultMap, and a key the map     *)
(* does not hold reads as nil.  A string is the number of the element it   *)
(* came from.                                                              *)
(***************************************************************************)
Tags == {"A", "B"}
Keys == Tags \cup {"", "@k"}

NilValue == [kind |-> "nil", val |-> 0]
StringValue(x) == [kind |-> "string", val |-> x]
StringsValue(xs) == [kind |-> "[]string", val |-> xs]
NodeValue(m) == [kind |-> "ResultMap", val |-> m]
NodesValue(ms) == [kind |-> "[]ResultMap", val |-> ms]

EmptyMap == [k \in Keys |-> NilValue]

\* len(rm)
len(m) == Cardinality({k \in Keys : m[k].kind # "nil"})

\* An element as the decoder reads it: its tag, the value of its attribute
\* k, its character data (0 for none or blank, each) and its child elements.
StartElement(tag, attr, text, kids) ==
    [tag |-> tag, attr |-> attr, text |-> text, kids |-> kids]

\* newElement that stores a text-only element as a string whatever the
\* entry holds.
RECURSIVE newElementOverwrite(_, _)
\* ResultMap.UnmarshalXML and ResultMap.newElement.
RECURSIVE UnmarshalXML(_)
RECURSIVE newElement(_, _)
RECURSIVE UnmarshalChildren(_, _)

\* UnmarshalXML: the attributes, then the tokens up to the EndElement.
UnmarshalXML(s) ==
    LET attrs == IF s.attr # 0 THEN [EmptyMap EXCEPT !["@k"] = StringValue(s.attr)]
                 ELSE EmptyMap
        chars == IF s.text # 0 THEN [attrs EXCEPT ![""] = StringValue(s.text)]
                 ELSE attrs
    IN  UnmarshalChildren(chars, s.kids)

\* The loop of UnmarshalXML over the StartElement tokens.
UnmarshalChildren(m, kids) ==
    IF kids = <<>> THEN m
    ELSE UnmarshalChildren(newElement(m, Head(kids)), Tail(kids))

newElementOverwrite(m, s) ==
    LET newEl == UnmarshalXML(s)
    IN  IF len(newEl) = 1 /\ newEl[""].kind = "string"
            THEN [m EXCEPT ![s.tag] = newEl[""]]
        ELSE IF m[s.tag].kind = "[]ResultMap"
            THEN [m EXCEPT ![s.tag] = NodesValue(Append(m[s.tag].val, newEl))]
        ELSE IF m[s.tag].kind = "ResultMap"
            THEN [m EXCEPT ![s.tag] = NodesValue(<<m[s.tag].val, newEl>>)]
        ELSE IF len(newEl) > 0 THEN [m EXCEPT ![s.tag] = NodeValue(newEl)]
        ELSE m

newElement(m, s) ==
    LET newEl == UnmarshalXML(s)
        tag == s.tag
        isString == len(newEl) = 1 /\ newEl[""].kind = "string"
        sVal == newEl[""].val
        tVal == m[tag]
    IN  CASE tVal.kind = "[]ResultMap" ->
                [m EXCEPT ![tag] = NodesValue(Append(tVal.val, newEl))]
          [] tVal.kind = "ResultMap" ->
                [m EXCEPT ![tag] = NodesValue(<<tVal.val, newEl>>)]
          [] tVal.kind = "string" ->
                IF isString THEN [m EXCEPT ![tag] = StringsValue(<<tVal.val, sVal>>)]
                ELSE m
          [] tVal.kind = "[]string" ->
                IF isString THEN [m EXCEPT ![tag] = StringsValue(Append(tVal.val, sVal))]
                ELSE m
          [] tVal.kind = "nil" ->
                IF isString THEN [m EXCEPT ![tag] = StringValue(sVal)]
                ELSE IF len(newEl) > 0 THEN [m EXCEPT ![tag] = NodeValue(newEl)]
                ELSE m

\* What ReadArray returns: a slice and a nil error, or nil and an error.
ReadResult(err, val) == [err |-> err, val |-> val]

\* ReadArray that steps into the first node of a sequence.
RECURSIVE ReadArrayFirst(_, _)
ReadArrayFirst(m, keys) ==
    LET v == m[Head(keys)]
        rest == Tail(keys)
    IN  CASE v.kind = "nil" -> ReadResult(FALSE, <<>>)
          [] v.kind = "[]ResultMap" ->
                IF rest # <<>> THEN ReadArrayFirst(v.val[1], rest)
                ELSE ReadResult(FALSE, v.val)
          [] v.kind = "ResultMap" ->
                IF rest # <<>> THEN ReadArrayFirst(v.val, rest)
                ELSE ReadResult(FALSE, <<v.val>>)
          [] OTHER -> ReadResult(TRUE, <<>>)

\* ResultMap.ReadArray; keys is name split at its "/".
RECURSIVE ReadArray(_, _)
ReadArray(m, keys) ==
    LET v == m[Head(keys)]
        rest == Tail(keys)
    IN  CASE v.kind = "nil" -> ReadResult(FALSE, <<>>)
          [] v.kind = "[]ResultMap" ->
                IF rest # <<>> THEN ReadResult(TRUE, <<>>)
                ELSE ReadResult(FALSE, v.val)
          [] v.kind = "ResultMap" ->
                IF rest # <<>> THEN ReadArray(v.val, rest)
                ELSE ReadResult(FALSE, <<v.val>>)
          [] OTHER -> ReadResult(TRUE, <<>>)

\* The shapes of the i-th child of the decoded element: empty, text only,
\* an attribute only, an attribute and text, and with one text-only, one
\* attributed or two attributed children of tag B.
Shapes(tag, i) ==
    {StartElement(tag, 0, 0, <<>>),
     StartElement(tag, 0, i, <<>>),
     StartElement(tag, i, 0, <<>>),
     StartElement(tag, i, i, <<>>),
     StartElement(tag, 0, 0, <<StartElement("B", 0, i, <<>>)>>),
     StartElement(tag, 0, 0, <<StartElement("B", i, 0, <<>>)>>),
     StartElement(tag, 0, 0, <<StartElement("B", i, 0, <<>>),
                               StartElement("B", i, i, <<>>)>>)}

\* The names ReadArray is called with, split at "/".
Paths == UNION {[1..n -> Tags] : n \in 1..MaxDepth}

NoRead == [called |-> FALSE, keys |-> <<>>, res |-> ReadResult(FALSE, <<>>)]

(***************************************************************************)
(* contact.go: a Filter and the slices of its tree.  A slice is the array  *)
(* it points to (0 for nil), its length and its capacity; heap[a] is the   *)
(* array a.                                                                *)
(***************************************************************************)
NilSlice == [arr |-> 0, len |-> 0, cap |-> 0]

\* A Filter: XMLName.Local, Field (the number of the criteria call that made
\* it, 0 for none) and the slice Filters.
FilterValue(name, field, filters) ==
    [XMLName |-> name, Field |-> field, Filters |-> filters]

ZeroFilter == FilterValue("", 0, NilSlice)

\* The *Filter of a Query: nil, or a pointer to a Filter of its own.
NilFilter == [isNil |-> TRUE, XMLName |-> "", Filters |-> NilSlice]

\* NewFilter
NewFilter == [isNil |-> FALSE, XMLName |-> "", Filters |-> NilSlice]

\* The capacity append gives the new array of a []Filter that is full: the
\* length asked for, or twice the old capacity.
growslice(oldCap, newLen) ==
    IF newLen > 2 * oldCap THEN newLen ELSE 2 * oldCap

\* append(sl, x) on the heap h: x is written behind the last element when
\* the array has room for it, and otherwise into a new array that holds a
\* copy of the elements.
append(h, sl, x) ==
    IF sl.len < sl.cap
        THEN [heap |-> [h EXCEPT ![sl.arr][sl.len + 1] = x],
              slice |-> [sl EXCEPT !.len = sl.len + 1]]
    ELSE LET cap == growslice(sl.cap, sl.len + 1)
             arr == [i \in 1..cap |->
                        IF i <= sl.len THEN h[sl.arr][i]
                        ELSE IF i = sl.len + 1 THEN x ELSE ZeroFilter]
         IN  [heap |-> Append(h, arr),
              slice |-> [arr |-> Len(h) + 1, len |-> sl.len + 1, cap |-> cap]]

\* The names And() and Or() give their Filter.
GroupNames == {"and", "or"}

\* The elements xml.Marshal writes for a []Filter, in order: each under the
\* name of its XMLName, with its field and the elements of its Filters.
RECURSIVE MarshalFilters(_, _)
MarshalFilters(h, sl) ==
    [i \in 1..sl.len |->
        [name |-> h[sl.arr][i].XMLName, field |-> h[sl.arr][i].Field,
         kids |-> MarshalFilters(h, h[sl.arr][i].Filters)]]

\* The elements xml.Marshal writes for the field Filter of a Query, tagged
\* `xml:"filter,omitempty"`: none for a nil pointer, and otherwise one, named
\* by the XMLName of the Filter or, when that is empty, by the tag.
MarshalFilter(f, h) ==
    IF f.isNil THEN <<>>
    ELSE <<[name |-> IF f.XMLName # "" THEN f.XMLName ELSE "filter",
            field |-> 0, kids |-> MarshalFilters(h, f.Filters)]>>

NotMarshalled == [done |-> FALSE, els |-> <<>>]

(***************************************************************************)
(* The values of the variables a specification does not use.               *)
(***************************************************************************)
DecIdle ==
    /\ resp = [ErrorMsg |-> FALSE, OpError |-> FALSE, Results |-> <<>>]
    /\ returnValues = <<>>
    /\ rv0 = <<>>
    /\ decOut = NoCall
    /\ msg = <<>>

CallersIdle ==
    /\ lock = 0
    /\ pc = [c \in Callers |-> "start"]
    /\ chk = [c \in Callers |-> NoCheck]
    /\ loc = [c \in Callers |-> NoLocals]

SessIdle ==
    /\ sess = NoSession
    /\ now = 1
    /\ refreshes = 0
    /\ CallersIdle

ExecIdle ==
    /\ ex = NoExec
    /\ sent = <<>>

PageIdle ==
    /\ pg = NoGetAll
    /\ calls = <<>>
    /\ pages = <<>>
    /\ acc = [kind |-> "nil", val |-> <<>>]

MapIdle ==
    /\ doc = <<>>
    /\ rm = EmptyMap
    /\ decoded = FALSE
    /\ ra = NoRead

FilterIdle ==
    /\ flt = NilFilter
    /\ heap = <<>>
    /\ groups = <<>>
    /\ adds = <<>>
    /\ xmlOut = NotMarshalled

(***************************************************************************)
(* The decoder's specification: a parsed Response and a list of targets,   *)
(* on which Decode or Error is called once.                                *)
(***************************************************************************)
DecInit ==
    /\ resp \in Responses
    /\ returnValues \in TargetLists
    /\ rv0 = returnValues
    /\ decOut = NoCall
    /\ msg = <<>>
    /\ SessIdle /\ ExecIdle /\ PageIdle /\ MapIdle /\ FilterIdle

CallDecode ==
    /\ decOut.op = "none"
    /\ decOut' = ResponseDecode(resp, returnValues)
    /\ returnValues' = decOut'.rv
    /\ UNCHANGED <<resp, rv0, msg>>
    /\ UNCHANGED <<sessVars, execVars, pageVars, mapVars, filterVars>>

CallError ==
    /\ decOut.op = "none"
    /\ decOut' = ResponseError(resp, returnValues)
    /\ UNCHANGED <<resp, returnValues, rv0, msg>>
    /\ UNCHANGED <<sessVars, execVars, pageVars, mapVars, filterVars>>

\* Error() is called on the ResultsError that Decode or Error returned.
CallErrorString ==
    /\ decOut.ret = "ResultsError"
    /\ msg = <<>>
    /\ msg' = ResultsErrorError(decOut.errs)
    /\ UNCHANGED <<resp, returnValues, rv0, decOut>>
    /\ UNCHANGED <<sessVars, execVars, pageVars, mapVars, filterVars>>

DecNext == CallDecode \/ CallError \/ CallErrorString

SpecDecode == DecInit /\ [][DecNext]_vars

(***************************************************************************)
(* Properties of the decoder.                                              *)
(***************************************************************************)
HasErrors(i) == Len(resp.Results[i].Errors) > 0

\* Position i was passed a target that is not an untyped nil.
HasTarget(i) == i <= Len(rv0) /\ rv0[i].kind # "nil"

\* Result.Decode of Result i into the target passed for it reports an error.
DecodeFails(i) ==
    /\ ~HasErrors(i)
    /\ HasTarget(i)
    /\ ResultDecode(resp.Results[i], rv0[i]).err # "nil"

\* An error-free Result without a data element is decoded into a target.
FaultingInput ==
    \E i \in 1..Len(resp.Results) :
        ~HasErrors(i) /\ HasTarget(i) /\ rv0[i].kind # "nonptr"
            /\ ~resp.Results[i].HasData

\* C1: Response.Decode never stops early: every error-free Result with a
\* non-nil target is decoded into that target, whatever happened at the
\* positions before it.
C1_DecodeNeverStopsEarly ==
    (decOut.op = "Decode" /\ execErr(resp) = "nil") =>
        \A i \in 1..Len(resp.Results) :
            (~HasErrors(i) /\ HasTarget(i)) => i \in decOut.attempted

\* C1, where no error-free Result without a data element meets a target:
\* the statement of C1 holds.
C1_NoFaultNeverStopsEarly ==
    (decOut.op = "Decode" /\ execErr(resp) = "nil" /\ ~FaultingInput) =>
        \A i \in 1..Len(resp.Results) :
            (~HasErrors(i) /\ HasTarget(i)) => i \in decOut.attempted

\* C2: with a control-level or operation-level error in the envelope, Decode
\* and Error return it (the control-level one first), no target is decoded
\* or modified, and the error is no ResultsError.
C2_EnvelopeErrorFirst ==
    (decOut.op # "none" /\ (resp.ErrorMsg \/ resp.OpError)) =>
        /\ decOut.ret = (IF resp.ErrorMsg THEN "ControlError" ELSE "OperationError")
        /\ decOut.attempted = {}
        /\ returnValues = rv0

\* C2 witness: Decode was called on an envelope with an operation-level error
\* whose first Result has rows and a slice target.
C2_Witness ==
    /\ decOut.op = "Decode"
    /\ resp.OpError /\ ~resp.ErrorMsg
    /\ Len(resp.Results) > 0 /\ Len(rv0) > 0
    /\ resp.Results[1].HasData /\ Len(resp.Results[1].Payload.rows) > 0
    /\ rv0[1].kind = "slice"
    /\ decOut.ret = "OperationError"

\* C3: without envelope error, Decode returns nil iff no Result has errors and
\* no decode failed, and otherwise a ResultsError as long as Results whose
\* entry i is non-empty exactly where Result i has errors or its decode
\* failed; nil or missing targets are never decoded; Error aligns the Result
\* errors by position.
C3_ResultsErrorByPosition ==
    (decOut.op # "none" /\ execErr(resp) = "nil") =>
        LET n == Len(resp.Results)
            bad(i) == HasErrors(i) \/ (decOut.op = "Decode" /\ DecodeFails(i))
        IN  /\ decOut.ret \in {"nil", "ResultsError"}
            /\ (decOut.ret = "nil") <=> (\A i \in 1..n : ~bad(i))
            /\ decOut.ret = "ResultsError" =>
                  /\ Len(decOut.errs) = n
                  /\ \A i \in 1..n : (decOut.errs[i] # <<>>) <=> bad(i)
                  /\ \A i \in 1..n : HasErrors(i) =>
                        decOut.errs[i] = resp.Results[i].Errors
            /\ \A i \in 1..n : ~HasTarget(i) => i \notin decOut.attempted
            /\ \A i \in 1..Len(rv0) : rv0[i].kind = "nil" => returnValues[i] = rv0[i]

\* C3, where no error-free Result without a data element meets a target:
\* the statement of C3 holds.
C3_NoFaultResultsErrorByPosition ==
    FaultingInput \/ C3_ResultsErrorByPosition

\* C17: Result.Decode of a payload into a *[]S leaves the elements the slice
\* held, followed by one element per element of the payload in document
\* order (none for an empty payload); into a *S it decodes the first element
\* of the payload and ignores the rest.
C17_SliceAppendsSingleTakesFirst ==
    decOut.op = "Decode" =>
        \A i \in decOut.attempted :
            LET data == resp.Results[i].Payload IN
            /\ (rv0[i].kind = "slice" /\ resp.Results[i].HasData /\ ~data.bad) =>
                  /\ returnValues[i].val = rv0[i].val \o data.rows
                  /\ Len(returnValues[i].val) = Len(rv0[i].val) + Len(data.rows)
                  /\ decOut.ret = "ResultsError" => decOut.errs[i] = <<>>
            /\ (rv0[i].kind = "single" /\ resp.Results[i].HasData
                    /\ Len(data.rows) > 0) =>
                  /\ returnValues[i].val = <<data.rows[1]>>
                  /\ decOut.ret = "ResultsError" => decOut.errs[i] = <<>>

\* C17 witness: a slice that held one element received the two elements of
\* the first payload after it, and a single value the first of the two
\* elements of the second payload.
C17_Witness ==
    /\ decOut.op = "Decode" /\ decOut.ret = "nil"
    /\ Len(resp.Results) = 2 /\ Len(rv0) = 2
    /\ rv0[1] = [kind |-> "slice", val |-> <<OldRow>>]
    /\ returnValues[1].val = <<OldRow, <<1, 1>>, <<1, 2>>>>
    /\ rv0[2].kind = "single"
    /\ Len(resp.Results[2].Payload.rows) = 2
    /\ returnValues[2].val = <<<<2, 1>>>>

\* The positions of the returned ResultsError whose error list is not empty.
ErrorPositions == {i \in 1..Len(decOut.errs) : decOut.errs[i] # <<>>}

\* The message has one piece per position in ErrorPositions, in ascending
\* order of position, each labelled result[i], all but the first separated
\* from the piece before by " | ".
LabelledByPosition ==
    /\ Len(msg) = Cardinality(ErrorPositions)
    /\ \A j \in 1..Len(msg) :
          /\ msg[j].labelled
          /\ msg[j].pos + 1 \in ErrorPositions
          /\ msg[j].sep <=> (j > 1)
          /\ j > 1 => msg[j - 1].pos < msg[j].pos

\* C19: Error() of a ResultsError lists exactly the positions with errors, in
\* ascending order, each labelled result[i] and separated by " | ", for the
\* errors a server reports and for the errors of a failed decode alike.
C19_MessageListsErrorPositions ==
    msg # <<>> => LabelledByPosition

\* C19, for a ResultsError that holds no error of a failed decode.
C19_ServerErrorsListed ==
    (msg # <<>> /\ \A i \in ErrorPositions : decOut.errs[i] # DecodeErrorDetail) =>
        LabelledByPosition

\* C28: Response.Decode always returns, nil or an error, and never faults:
\* an error-free Result without data element decoded into a non-nil target
\* gives a normal return.
C28_DecodeAlwaysReturns ==
    decOut.op = "Decode" => decOut.ret # "fault"

\* C28, where every error-free Result that meets a target has a data
\* element: Decode returns.
C28_WithDataDecodeReturns ==
    (decOut.op = "Decode" /\ ~FaultingInput) => decOut.ret # "fault"

(***************************************************************************)
(* The scenario of three functions: a Response whose Results are a success *)
(* with rows, an error and a success with rows, and three targets.         *)
(***************************************************************************)
ScenarioInit ==
    /\ \E a, c \in 1..MaxRows, e \in ErrorLists :
          resp = [ErrorMsg |-> FALSE, OpError |-> FALSE,
                  Results |->
                      <<MkResult(<<>>, TRUE,
                                 [rows |-> [j \in 1..a |-> <<1, j>>], bad |-> FALSE], 0, 0),
                        MkResult(e, FALSE, NoPayload, 0, 0),
                        MkResult(<<>>, TRUE,
                                 [rows |-> [j \in 1..c |-> <<3, j>>], bad |-> FALSE], 0, 0)>>]
    /\ returnValues \in [1..3 -> {t \in Targets : t.kind \in {"slice", "single"}}]
    /\ rv0 = returnValues
    /\ decOut = NoCall
    /\ msg = <<>>
    /\ SessIdle /\ ExecIdle /\ PageIdle /\ MapIdle /\ FilterIdle

SpecScenario == ScenarioInit /\ [][DecNext]_vars

\* The target of position i holds what Result i carries.
Populated(i) ==
    returnValues[i].val =
        (IF rv0[i].kind = "slice" THEN rv0[i].val \o resp.Results[i].Payload.rows
         ELSE <<resp.Results[i].Payload.rows[1]>>)

\* C18, as the specification states it: success/error/success at positions
\* 0/1/2 gives a decode error whose message enumerates positions 0 and 2 by
\* label, target 1 untouched and targets 0 and 2 populated.
C18_MessageNamesPositions0And2 ==
    decOut.op = "Decode" =>
        /\ decOut.ret = "ResultsError"
        /\ returnValues[2] = rv0[2]
        /\ Populated(1) /\ Populated(3)
        /\ msg # <<>> =>
              /\ Len(msg) = 2
              /\ msg[1].labelled /\ msg[1].pos = 0
              /\ msg[2].labelled /\ msg[2].pos = 2

\* C18, amended: success/error/success at positions 0/1/2 gives a decode
\* error with an entry for position 1 only, whose message is the one piece
\* labelled result[1]; target 1 is untouched and targets 0 and 2 are
\* populated.
C18_MessageNamesPosition1 ==
    decOut.op = "Decode" =>
        /\ decOut.ret = "ResultsError"
        /\ Len(decOut.errs) = 3
        /\ decOut.errs[1] = <<>> /\ decOut.errs[3] = <<>>
        /\ decOut.errs[2] = resp.Results[2].Errors
        /\ returnValues[2] = rv0[2]
        /\ Populated(1) /\ Populated(3)
        /\ msg # <<>> =>
              /\ Len(msg) = 1
              /\ msg[1].labelled /\ msg[1].pos = 1 /\ ~msg[1].sep

\* C18 witness: Decode was called with three slices, Error() on what it
\* returned, the message names result[1], and slices 0 and 2 have grown.
C18_Witness ==
    /\ decOut.op = "Decode" /\ msg # <<>>
    /\ Len(resp.Results) = 3 /\ Len(resp.Results[2].Errors) > 0
    /\ msg[1].pos = 1
    /\ \A i \in {1, 3} : rv0[i].kind = "slice"
          /\ Len(returnValues[i].val) > Len(rv0[i].val)
    /\ returnValues[2] = rv0[2]

(***************************************************************************)
(* The Session's specification: callers that share one Session, each     *)
(* running Exec calls one after the other.                               *)
(***************************************************************************)
SessInit ==
    /\ sess \in Sessions
    /\ now = 1
    /\ refreshes = 0
    /\ CallersIdle
    /\ DecIdle /\ ExecIdle /\ PageIdle /\ MapIdle /\ FilterIdle

\* What the staleness check of GetAuthElement saw (a ghost): the token, the
\* sign of (now + ExpiryDelta) - Expires, and whether Refresh was called.
Checked(need) ==
    [valid |-> TRUE, id |-> sess.ID,
     cmp |-> Sign((now + sess.ExpiryDelta) - sess.Expires), did |-> need]

\* GetAuthElement with nothing to refresh: s.m.Lock(), the check, s.m.Unlock().
GAECached(c) ==
    /\ pc[c] = "start"
    /\ LockFree(c)
    /\ ~NeedsRefresh(sess, now)
    /\ chk' = [chk EXCEPT ![c] = Checked(FALSE)]
    /\ pc' = [pc EXCEPT ![c] = "return"]
    /\ UNCHANGED <<sess, lock, now, refreshes, loc>>
    /\ UNCHANGED <<decVars, execVars, pageVars, mapVars, filterVars>>

\* GetAuthElement, Refresh without a RefreshFunc: s.m.Lock(), the check, the
\* error of Refresh, s.m.Unlock().
GAENoRefreshFunc(c) ==
    /\ pc[c] = "start"
    /\ LockFree(c)
    /\ NeedsRefresh(sess, now)
    /\ ~sess.hasRefreshFunc
    /\ chk' = [chk EXCEPT ![c] = Checked(TRUE)]
    /\ loc' = [loc EXCEPT ![c].err = "no refresh function"]
    /\ pc' = [pc EXCEPT ![c] = "return"]
    /\ UNCHANGED <<sess, lock, now, refreshes>>
    /\ UNCHANGED <<decVars, execVars, pageVars, mapVars, filterVars>>

\* GetAuthElement, Refresh: s.m.Lock(), the check, s.RefreshFunc(ctx) is called.
GAERefresh(c) ==
    /\ pc[c] = "start"
    /\ LockFree(c)
    /\ NeedsRefresh(sess, now)
    /\ sess.hasRefreshFunc
    /\ refreshes < MaxRefresh
    /\ lock' = c
    /\ chk' = [chk EXCEPT ![c] = Checked(TRUE)]
    /\ refreshes' = refreshes + 1
    /\ pc' = [pc EXCEPT ![c] = "refreshing"]
    /\ UNCHANGED <<sess, now, loc>>
    /\ UNCHANGED <<decVars, execVars, pageVars, mapVars, filterVars>>

\* RefreshFunc returns an error: Refresh returns it, s.m.Unlock().
RefreshFail(c) ==
    /\ pc[c] = "refreshing"
    /\ NestedExecRuns(c)
    /\ loc' = [loc EXCEPT ![c].err = "refresh failed"]
    /\ lock' = IF lock = c THEN 0 ELSE lock
    /\ pc' = [pc EXCEPT ![c] = "return"]
    /\ UNCHANGED <<sess, now, refreshes, chk>>
    /\ UNCHANGED <<decVars, execVars, pageVars, mapVars, filterVars>>

\* RefreshFunc returns a SessionResult.
RefreshReturn(c) ==
    /\ pc[c] = "refreshing"
    /\ NestedExecRuns(c)
    /\ \E exp \in ServerTimeouts(now) :
          loc' = [loc EXCEPT ![c].res = [SessionID |-> refreshes + 1,
                      Endpoint |-> refreshes + 1, LocationID |-> refreshes + 1,
                      Expires |-> exp]]
    /\ pc' = [pc EXCEPT ![c] = "write ID"]
    /\ UNCHANGED <<sess, lock, now, refreshes, chk>>
    /\ UNCHANGED <<decVars, execVars, pageVars, mapVars, filterVars>>

\* Refresh: s.ID = res.SessionID
WriteID(c) ==
    /\ pc[c] = "write ID"
    /\ sess' = [sess EXCEPT !.ID = loc[c].res.SessionID]
    /\ pc' = [pc EXCEPT ![c] = "write Endpoint"]
    /\ UNCHANGED <<lock, now, refreshes, chk, loc>>
    /\ UNCHANGED <<decVars, execVars, pageVars, mapVars, filterVars>>

\* Refresh: s.Endpoint = res.Endpoint; s.LocationID = res.LocationID
WriteEndpoint(c) ==
    /\ pc[c] = "write Endpoint"
    /\ sess' = [sess EXCEPT !.Endpoint = loc[c].res.Endpoint,
                            !.LocationID = loc[c].res.LocationID]
    /\ pc' = [pc EXCEPT ![c] = "write Expires"]
    /\ UNCHANGED <<lock, now, refreshes, chk, loc>>
    /\ UNCHANGED <<decVars, execVars, pageVars, mapVars, filterVars>>

\* Refresh: s.Expires = res.Expires; then GetAuthElement: s.m.Unlock()
WriteExpires(c) ==
    /\ pc[c] = "write Expires"
    /\ sess' = [sess EXCEPT !.Expires = loc[c].res.Expires]
    /\ lock' = IF lock = c THEN 0 ELSE lock
    /\ loc' = [loc EXCEPT ![c].res = NoResult]
    /\ pc' = [pc EXCEPT ![c] = "return"]
    /\ UNCHANGED <<now, refreshes, chk>>
    /\ UNCHANGED <<decVars, execVars, pageVars, mapVars, filterVars>>

\* GetAuthElement: return nil, err; makeRequest and Exec return the error.
GAEReturnErr(c) ==
    /\ pc[c] = "return"
    /\ loc[c].err # "nil"
    /\ pc' = [pc EXCEPT ![c] = "start"]
    /\ loc' = [loc EXCEPT ![c] = NoLocals]
    /\ chk' = [chk EXCEPT ![c] = NoCheck]
    /\ UNCHANGED <<sess, lock, now, refreshes>>
    /\ UNCHANGED <<decVars, execVars, pageVars, mapVars, filterVars>>

\* GetAuthElement: return s.ID, nil (s.ID is read here, after the Unlock).
GAEReturn(c) ==
    /\ pc[c] = "return"
    /\ loc[c].err = "nil"
    /\ loc' = [loc EXCEPT ![c].tok = sess.ID]
    /\ pc' = [pc EXCEPT ![c] = "endpoint"]
    /\ chk' = [chk EXCEPT ![c] = NoCheck]
    /\ UNCHANGED <<sess, lock, now, refreshes>>
    /\ UNCHANGED <<decVars, execVars, pageVars, mapVars, filterVars>>

\* makeRequest: getEndpoint(sv.Authenticator), i.e. Session.GetEndpoint.
ReadEndpoint(c) ==
    /\ pc[c] = "endpoint"
    /\ loc' = [loc EXCEPT ![c].ep = GetEndpoint(sess)]
    /\ pc' = [pc EXCEPT ![c] = "send"]
    /\ UNCHANGED <<sess, lock, now, refreshes, chk>>
    /\ UNCHANGED <<decVars, execVars, pageVars, mapVars, filterVars>>

\* ExecWithControl: the transport fails, or the response does not parse.
TransportFail(c) ==
    /\ pc[c] = "send"
    /\ loc' = [loc EXCEPT ![c] = NoLocals]
    /\ pc' = [pc EXCEPT ![c] = "start"]
    /\ UNCHANGED <<sess, lock, now, refreshes, chk>>
    /\ UNCHANGED <<decVars, execVars, pageVars, mapVars, filterVars>>

\* ExecWithControl: a Response arrives, with or without an authentication
\* block; CheckResponse is called on it.
TransportReply(c) ==
    /\ pc[c] = "send"
    /\ \E tm \in ServerTimeouts(now) :
          loc' = [loc EXCEPT ![c] = [NoLocals EXCEPT !.timeout = tm]]
    /\ pc' = [pc EXCEPT ![c] = "check response"]
    /\ UNCHANGED <<sess, lock, now, refreshes, chk>>
    /\ UNCHANGED <<decVars, execVars, pageVars, mapVars, filterVars>>

\* CheckResponse: s.m.Lock(), the update of s.Expires, s.m.Unlock(); Exec
\* returns and the caller starts another one.
CheckResponse(c) ==
    /\ pc[c] = "check response"
    /\ LockFree(c)
    /\ sess' = [sess EXCEPT !.Expires = CheckResponseExpires(sess,
                    [isNil |-> FALSE, hasAuth |-> loc[c].timeout # 0,
                     SessionTimeout |-> loc[c].timeout])]
    /\ loc' = [loc EXCEPT ![c] = NoLocals]
    /\ pc' = [pc EXCEPT ![c] = "start"]
    /\ UNCHANGED <<lock, now, refreshes, chk>>
    /\ UNCHANGED <<decVars, execVars, pageVars, mapVars, filterVars>>

Tick ==
    /\ now < MaxTime
    /\ now' = now + 1
    /\ UNCHANGED <<sess, lock, pc, refreshes, chk, loc>>
    /\ UNCHANGED <<decVars, execVars, pageVars, mapVars, filterVars>>

SessNext ==
    \/ \E c \in Callers :
          \/ GAECached(c) \/ GAENoRefreshFunc(c) \/ GAERefresh(c)
          \/ RefreshFail(c) \/ RefreshReturn(c)
          \/ WriteID(c) \/ WriteEndpoint(c) \/ WriteExpires(c)
          \/ GAEReturnErr(c) \/ GAEReturn(c) \/ ReadEndpoint(c)
          \/ TransportFail(c) \/ TransportReply(c) \/ CheckResponse(c)
    \/ Tick

SpecSession == SessInit /\ [][SessNext]_vars

(***************************************************************************)
(* The Session's specification for progress: the same calls, each section  *)
(* between Lock and Unlock and each call of the RefreshFunc one step, on a *)
(* Session without token that ServiceFromConfig gave the RefreshFunc of a   *)
(* Login.                                                                  *)
(***************************************************************************)
SessLiveInit ==
    /\ sess \in {s \in Sessions : s.ID = 0 /\ s.hasRefreshFunc}
    /\ now = 1
    /\ refreshes = 0
    /\ CallersIdle
    /\ DecIdle /\ ExecIdle /\ PageIdle /\ MapIdle /\ FilterIdle

\* GetAuthElement with nothing to refresh: s.m.Lock(), the check,
\* s.m.Unlock(), return s.ID; makeRequest builds the request.
AuthCached(c) ==
    /\ pc[c] = "start"
    /\ LockFree(c)
    /\ ~NeedsRefresh(sess, now)
    /\ pc' = [pc EXCEPT ![c] = "send"]
    /\ UNCHANGED <<sess, lock, now, refreshes, chk, loc>>
    /\ UNCHANGED <<decVars, execVars, pageVars, mapVars, filterVars>>

\* GetAuthElement: s.m.Lock(), the check, Refresh calls s.RefreshFunc(ctx).
AuthRefresh(c) ==
    /\ pc[c] = "start"
    /\ LockFree(c)
    /\ NeedsRefresh(sess, now)
    /\ refreshes < MaxRefresh
    /\ lock' = c
    /\ refreshes' = refreshes + 1
    /\ pc' = [pc EXCEPT ![c] = "refreshing"]
    /\ UNCHANGED <<sess, now, chk, loc>>
    /\ UNCHANGED <<decVars, execVars, pageVars, mapVars, filterVars>>

\* The nested ExecWithControl of the RefreshFunc returns an error: Refresh
\* returns it, s.m.Unlock(), GetAuthElement and Exec return it.
NestedExecFails(c) ==
    /\ pc[c] = "refreshing"
    /\ NestedExecRuns(c)
    /\ lock' = 0
    /\ pc' = [pc EXCEPT ![c] = "start"]
    /\ UNCHANGED <<sess, now, refreshes, chk, loc>>
    /\ UNCHANGED <<decVars, execVars, pageVars, mapVars, filterVars>>

\* The nested ExecWithControl returns a SessionResult: Refresh stores it,
\* s.m.Unlock(), GetAuthElement returns s.ID; makeRequest builds the request.
NestedExecReturns(c) ==
    /\ pc[c] = "refreshing"
    /\ NestedExecRuns(c)
    /\ \E exp \in ServerTimeouts(now) :
          sess' = Refresh(sess, [SessionID |-> refreshes + 1,
                      Endpoint |-> refreshes + 1, LocationID |-> refreshes + 1,
                      Expires |-> exp])
    /\ lock' = 0
    /\ pc' = [pc EXCEPT ![c] = "send"]
    /\ UNCHANGED <<now, refreshes, chk, loc>>
    /\ UNCHANGED <<decVars, execVars, pageVars, mapVars, filterVars>>

SessLiveNext ==
    \/ \E c \in Callers :
          \/ AuthCached(c) \/ AuthRefresh(c)
          \/ NestedExecFails(c) \/ NestedExecReturns(c)
          \/ TransportFail(c) \/ TransportReply(c) \/ CheckResponse(c)
    \/ Tick

\* The scheduling of the callers: the RefreshFunc returns, the transport
\* answers, and a goroutine waiting in sync.Mutex.Lock gets the mutex when
\* it is free again and again (the starvation mode of sync.Mutex hands it
\* to the longest waiter).
SessFair ==
    \A c \in Callers :
        /\ WF_vars(NestedExecFails(c) \/ NestedExecReturns(c))
        /\ WF_vars(TransportFail(c) \/ TransportReply(c))
        /\ SF_vars(AuthCached(c) \/ AuthRefresh(c))
        /\ SF_vars(CheckResponse(c))

SpecSessionLive == SessLiveInit /\ [][SessLiveNext]_vars /\ SessFair

(***************************************************************************)
(* Properties of the Session.                                              *)
(***************************************************************************)
InRefresh(c) == pc[c] \in {"refreshing", "write ID", "write Endpoint", "write Expires"}

\* C5: a Session holding a token calls Refresh iff now plus ExpiryDelta is
\* later than Expires (so: expiry 10:00, margin 60 s, 09:59:30 refreshes and
\* 09:58:00 does not); a Session without a token always calls it.
C5_RefreshIffStale ==
    \A c \in Callers : chk[c].valid =>
        IF chk[c].id = 0 THEN chk[c].did
        ELSE chk[c].did <=> (chk[c].cmp > 0)

\* C6: a caller that takes the lock after a refresh has stored a token whose
\* expiry lies beyond now plus ExpiryDelta does not invoke RefreshFunc again.
C6_SingleRefresh ==
    \A c \in Callers :
        (chk[c].valid /\ chk[c].id >= 2 /\ chk[c].cmp < 0) => ~chk[c].did

\* C7: at no time are two RefreshFunc invocations of GetAuthElement in
\* progress: whoever is inside Refresh holds the Session's lock.
C7_OneRefreshAtATime ==
    /\ Cardinality({c \in Callers : InRefresh(c)}) <= 1
    /\ \A c \in Callers : InRefresh(c) => lock = c

\* C7 witness: one caller's RefreshFunc is in progress while another caller,
\* who would refresh too, waits for the lock.
C7_Witness ==
    \E c, d \in Callers :
        /\ c # d
        /\ pc[c] = "refreshing" /\ lock = c
        /\ pc[d] = "start" /\ NeedsRefresh(sess, now)

\* C8: no caller reads the Session's ID or Endpoint while another caller's
\* Refresh is writing that field, every access being made under the lock.
C8_NoAccessWithoutLock ==
    \A c, d \in Callers :
        c # d =>
            /\ ~(pc[c] = "return" /\ loc[c].err = "nil" /\ pc[d] = "write ID")
            /\ ~(pc[c] = "endpoint" /\ pc[d] = "write Endpoint")

\* C30: Session.GetAuthElement does not deadlock.  The caller that holds
\* the mutex for a refresh gives it up, with the new session or with the
\* error of the RefreshFunc; a caller in CheckResponse returns; and a caller
\* in GetAuthElement gets past the mutex as long as the RefreshFunc may be
\* called again.
C30_CallsReturn ==
    \A c \in Callers :
        /\ (lock = c) ~> (lock # c /\ pc[c] \in {"start", "send"})
        /\ (pc[c] = "check response") ~> (pc[c] = "start")
        /\ (pc[c] = "start" /\ refreshes < MaxRefresh) ~>
               (pc[c] # "start" \/ refreshes = MaxRefresh)

\* C30 witness: caller 1 holds the mutex while its RefreshFunc runs, and
\* caller 2 waits for it in CheckResponse.
C30_Witness ==
    /\ lock = 1 /\ pc[1] = "refreshing"
    /\ pc[2] = "check response"

(***************************************************************************)
(* The executor's specification: one ExecWithControl call, from its        *)
(* arguments to its return.  ex.gotAuth and ex.outcome record what         *)
(* happened on the way (ghosts).                                           *)
(***************************************************************************)
ExecInit ==
    /\ \E sv \in Services, n \in BOOLEAN, cc \in ControlConfigs, f \in FunctionLists :
          ex = [NoExec EXCEPT !.sv = sv, !.ctxNil = n, !.cc = cc, !.f = f]
    /\ sent = <<>>
    /\ IF ex.sv.Authenticator = "Session" THEN sess \in Sessions ELSE sess = NoSession
    /\ now = 1
    /\ refreshes = 0
    /\ CallersIdle
    /\ DecIdle /\ PageIdle /\ MapIdle /\ FilterIdle

ExecReturn(e, hasResp, err) ==
    [e EXCEPT !.pc = "returned", !.ret = [hasResp |-> hasResp, err |-> err]]

\* ExecWithControl: sv.validate
ExecValidate ==
    /\ ex.pc = "call"
    /\ LET err == validate(ex.sv, ex.ctxNil, ex.f) IN
          ex' = IF err # "nil" THEN ExecReturn(ex, FALSE, err)
                ELSE [ex EXCEPT !.pc = "auth"]
    /\ UNCHANGED <<sent, decVars, sessVars, pageVars, mapVars, filterVars>>

\* makeRequest: GetAuthElement of a Login or a SessionID.
ExecAuthSimple ==
    /\ ex.pc = "auth"
    /\ ex.sv.Authenticator # "Session"
    /\ LET a == SimpleAuthElement(ex.sv.Authenticator) IN
          ex' = IF a.err # "nil" THEN ExecReturn(ex, FALSE, a.err)
                ELSE [ex EXCEPT !.pc = "build", !.el = a.el, !.gotAuth = TRUE]
    /\ UNCHANGED <<sent, decVars, sessVars, pageVars, mapVars, filterVars>>

\* makeRequest: Session.GetAuthElement returns the cached token.
ExecSessionCached ==
    /\ ex.pc = "auth"
    /\ ex.sv.Authenticator = "Session"
    /\ ~NeedsRefresh(sess, now)
    /\ ex' = [ex EXCEPT !.pc = "build", !.el = SessionElement(sess.ID),
                        !.gotAuth = TRUE]
    /\ UNCHANGED <<sent, decVars, sessVars, pageVars, mapVars, filterVars>>

\* makeRequest: Session.GetAuthElement, Refresh without a RefreshFunc.
ExecSessionNoFunc ==
    /\ ex.pc = "auth"
    /\ ex.sv.Authenticator = "Session"
    /\ NeedsRefresh(sess, now)
    /\ ~sess.hasRefreshFunc
    /\ ex' = ExecReturn(ex, FALSE, "no refresh function")
    /\ UNCHANGED <<sent, decVars, sessVars, pageVars, mapVars, filterVars>>

\* makeRequest: Session.GetAuthElement, Refresh calls the RefreshFunc that
\* Login.SessionRefresher made, which sends a getAPISession request.
ExecSessionRefresh ==
    /\ ex.pc = "auth"
    /\ ex.sv.Authenticator = "Session"
    /\ NeedsRefresh(sess, now)
    /\ sess.hasRefreshFunc
    /\ refreshes < MaxRefresh
    /\ refreshes' = refreshes + 1
    /\ sent' = Append(sent, SessionRequest(ex.sv))
    /\ ex' = [ex EXCEPT !.pc = "refresh"]
    /\ UNCHANGED <<sess, lock, pc, now, chk, loc, decVars, pageVars, mapVars, filterVars>>

\* The RefreshFunc returns; Refresh stores its result, GetAuthElement returns
\* s.ID or the error.
ExecRefreshDone ==
    /\ ex.pc = "refresh"
    /\ \E o \in SessionOutcomes(now) :
          LET rf == SessionRefresher(o, refreshes) IN
          IF rf.fault
              THEN /\ ex' = [ex EXCEPT !.pc = "fault", !.refresh = o]
                   /\ sess' = sess
          ELSE IF rf.err # "nil"
              THEN /\ ex' = [ExecReturn(ex, FALSE, rf.err) EXCEPT !.refresh = o]
                   /\ sess' = sess
          ELSE /\ sess' = Refresh(sess, rf.res)
               /\ ex' = [ex EXCEPT !.pc = "build", !.el = SessionElement(sess'.ID),
                                   !.gotAuth = TRUE, !.refresh = o]
    /\ UNCHANGED <<sent, lock, pc, now, refreshes, chk, loc, decVars, pageVars, mapVars, filterVars>>

\* makeRequest builds the request; HTTPClientFunc.Do sends it; the response
\* is parsed, handed to CheckResponse when the Authenticator is a Session,
\* and returned with its execErr.
ExecDo ==
    /\ ex.pc = "build"
    /\ \E o \in ExecOutcomes(now) :
          /\ sent' = IF o.kind = "Marshal Request" THEN sent
                     ELSE Append(sent, makeRequest(ex.sv, ex.cc, ex.f, ex.el, sess))
          /\ IF o.kind # "reply"
                THEN /\ ex' = [ExecReturn(ex, FALSE, o.kind) EXCEPT !.outcome = o.kind]
                     /\ sess' = sess
                ELSE /\ ex' = [ex EXCEPT !.pc = "returned", !.ret = ExecResult(o.r),
                                         !.outcome = "reply", !.reply = o.r]
                     /\ sess' = IF ex.sv.Authenticator = "Session"
                                THEN [sess EXCEPT !.Expires = CheckResponseExpires(sess, o.r)]
                                ELSE sess
    /\ UNCHANGED <<lock, pc, now, refreshes, chk, loc, decVars, pageVars, mapVars, filterVars>>

ExecNext ==
    \/ ExecValidate \/ ExecAuthSimple
    \/ ExecSessionCached \/ ExecSessionNoFunc \/ ExecSessionRefresh \/ ExecRefreshDone
    \/ ExecDo

SpecExec == ExecInit /\ [][ExecNext]_vars

(***************************************************************************)
(* Properties of the executor.                                             *)
(***************************************************************************)
Returned == ex.pc = "returned"
Validated == validate(ex.sv, ex.ctxNil, ex.f) = "nil"

\* C4: a call that passes validation returns a nil error iff the credential
\* was obtained, the transport answered 2xx, the response parsed and the
\* envelope has no control-level or operation-level error; it returns no
\* Response when the authenticator, the transport, the status or the parse
\* failed, the parsed Response with the error on an envelope error, and no
\* error for errors inside Results.
C4_ExecError ==
    (Returned /\ Validated) =>
        LET ok == ex.gotAuth /\ ex.outcome = "reply"
                     /\ ~ex.reply.ErrorMsg /\ ~ex.reply.OpError
        IN  /\ (ex.ret.err = "nil") <=> ok
            /\ (~ex.gotAuth \/ ex.outcome # "reply") => ~ex.ret.hasResp
            /\ (ex.outcome = "reply" /\ (ex.reply.ErrorMsg \/ ex.reply.OpError)) =>
                  /\ ex.ret.hasResp
                  /\ ex.ret.err =
                        (IF ex.reply.ErrorMsg THEN "ControlError" ELSE "OperationError")
            /\ ok => ex.ret.hasResp

\* C4 witness: a call returned its Response and no error although a Result
\* of the Response carries errors.
C4_Witness ==
    /\ Returned /\ Validated
    /\ ex.outcome = "reply"
    /\ Len(ex.reply.Results) > 0 /\ Len(ex.reply.Results[1].Errors) > 0
    /\ ex.ret.err = "nil" /\ ex.ret.hasResp

\* C14: a call is rejected for a nil Service, a nil Authenticator, an empty
\* SenderID or Password, a nil context and an empty function list, in this
\* order of precedence and each with its own error; a rejected call returns
\* no Response, asks the Authenticator for nothing, refreshes no session and
\* sends nothing.
C14_ValidationPrecedence ==
    LET rejection ==
            IF ex.sv.isNil THEN "nil Service"
            ELSE IF ex.sv.Authenticator = "nil" THEN "nil Authenticator"
            ELSE IF ex.sv.SenderID = "" \/ ex.sv.Password = ""
                THEN "SendorID/Passowrd is empty"
            ELSE IF ex.ctxNil THEN "nil context"
            ELSE IF ex.f = <<>> THEN "no functions specified"
            ELSE "none"
    IN  /\ rejection # "none" =>
              /\ ex.pc \in {"call", "returned"}
              /\ Returned => ex.ret = [hasResp |-> FALSE, err |-> rejection]
              /\ ~ex.gotAuth /\ ex.outcome = "none"
              /\ sent = <<>> /\ refreshes = 0
        /\ (rejection = "none" /\ Returned) =>
              ex.ret.err \notin {"nil Service", "nil Authenticator",
                                 "SendorID/Passowrd is empty", "nil context",
                                 "no functions specified"}

\* C14 witness: a call with an empty SenderID, a nil context and no function,
\* on a Session that would have been refreshed, was rejected for the SenderID.
C14_Witness ==
    /\ Returned
    /\ ~ex.sv.isNil /\ ex.sv.Authenticator = "Session"
    /\ ex.sv.SenderID = "" /\ ex.ctxNil /\ ex.f = <<>>
    /\ NeedsRefresh(sess, now) /\ sess.hasRefreshFunc
    /\ ex.ret = [hasResp |-> FALSE, err |-> "SendorID/Passowrd is empty"]
    /\ sent = <<>> /\ refreshes = 0

\* The request ExecWithControl built from its functions, once it is sent.
FunctionRequestSent == sent # <<>> /\ sent[Len(sent)].Cmd = "functions"
FunctionRequest == sent[Len(sent)]

\* C15: in the request built by makeRequest the header's control id is
\* ControlConfig.ControlID when a ControlConfig is given and else the value of
\* the ControlIDFunc; function i of the request is function i of the call,
\* with its own control id when that is not empty and else the header's.
C15_CorrelationIds ==
    FunctionRequestSent =>
        LET header == IF ~ex.cc.isNil THEN ex.cc.ControlID
                      ELSE IF ex.sv.idFunc = "nil" THEN "time" ELSE "generated"
        IN  /\ FunctionRequest.ControlID = header
            /\ Len(FunctionRequest.Content) = Len(ex.f)
            /\ \A i \in 1..Len(ex.f) :
                  FunctionRequest.Content[i] = (IF ex.f[i] # "" THEN ex.f[i] ELSE header)

\* C15 witness: a request was sent for a function without control id followed
\* by one with its own, under a ControlConfig with a ControlID.
C15_Witness ==
    /\ FunctionRequestSent
    /\ ex.f = <<"", "own">>
    /\ ~ex.cc.isNil /\ ex.cc.ControlID = "config"
    /\ FunctionRequest.Content = <<"config", "own">>

\* C16: the correlation id of a function in a sent request is never empty:
\* where neither the function nor the header (a ControlConfig with an empty
\* ControlID included) supplies an id, it is the value of the id generator.
C16_CorrelationIdNeverEmpty ==
    FunctionRequestSent =>
        \A i \in 1..Len(ex.f) :
            /\ FunctionRequest.Content[i] # ""
            /\ (ex.f[i] = "" /\ (ex.cc.isNil \/ ex.cc.ControlID = "")) =>
                  FunctionRequest.Content[i] = ID(ex.sv.idFunc)

\* C16, without a ControlConfig: the generator's value is inherited.
C16_DefaultControlNeverEmpty ==
    (FunctionRequestSent /\ ex.cc.isNil) =>
        \A i \in 1..Len(ex.f) :
            /\ FunctionRequest.Content[i] # ""
            /\ ex.f[i] = "" => FunctionRequest.Content[i] = ID(ex.sv.idFunc)

\* C20: the CheckResponse call of ExecWithControl leaves the Session's
\* Expires at the later of what it was and the session timeout the response
\* echoes (unchanged without authentication block, and for a nil response),
\* and leaves ID, Endpoint and LocationID as they were; so Expires never
\* decreases by it.
C20_ExpiryOnlyForward ==
    [][(/\ ex.pc = "build" /\ ex'.pc = "returned" /\ ex'.outcome = "reply"
        /\ ex.sv.Authenticator = "Session") =>
           LET echoed == IF ex'.reply.hasAuth THEN ex'.reply.SessionTimeout ELSE 0 IN
           /\ sess'.Expires = (IF echoed > sess.Expires THEN echoed ELSE sess.Expires)
           /\ sess'.Expires >= sess.Expires
           /\ ~ex'.reply.hasAuth => sess'.Expires = sess.Expires
           /\ sess' = [sess EXCEPT !.Expires = sess'.Expires]
           /\ CheckResponseExpires(sess, [NoReply EXCEPT !.isNil = TRUE]) = sess.Expires
      ]_vars

\* C20 witness: a call on a Session returned a response that echoes a session
\* timeout earlier than the Session's Expires, which stayed as it was.
C20_Witness ==
    /\ Returned /\ ex.outcome = "reply" /\ ex.sv.Authenticator = "Session"
    /\ ex.reply.hasAuth
    /\ ex.reply.SessionTimeout < sess.Expires

\* The nested getAPISession call of the refresher ended in an error: the
\* transport, the status or the parse failed, the envelope has an error, or
\* its Result has errors.
RefreshFailed ==
    /\ ex.refresh.kind # "none"
    /\ \/ ex.refresh.kind # "reply"
       \/ ex.refresh.r.ErrorMsg \/ ex.refresh.r.OpError
       \/ \E i \in 1..Len(ex.refresh.r.Results) :
             Len(ex.refresh.r.Results[i].Errors) > 0

RefreshError ==
    IF ex.refresh.kind # "reply" THEN ex.refresh.kind
    ELSE IF ex.refresh.r.ErrorMsg THEN "ControlError"
    ELSE IF ex.refresh.r.OpError THEN "OperationError"
    ELSE "ResultsError"

\* C21: when the refresh of a Session fails, for want of a RefreshFunc or
\* with the error the RefreshFunc returns, the Exec call returns that error
\* and no Response, GetAuthElement hands out no credential, the caller's
\* request is not sent, and the Session keeps its ID, Endpoint, LocationID
\* and Expires.
C21_FailedRefreshChangesNothing ==
    [][/\ (ex.pc = "auth" /\ NeedsRefresh(sess, now) /\ ~sess.hasRefreshFunc
              /\ ex.sv.Authenticator = "Session") =>
             /\ ex'.pc = "returned"
             /\ ex'.ret = [hasResp |-> FALSE, err |-> "no refresh function"]
             /\ ~ex'.gotAuth
             /\ sess' = sess /\ sent' = sent
       /\ (ex.pc = "refresh" /\ RefreshFailed') =>
             /\ ex'.pc = "returned"
             /\ ex'.ret = [hasResp |-> FALSE, err |-> RefreshError']
             /\ ~ex'.gotAuth
             /\ sess' = sess /\ sent' = sent
             /\ \A i \in 1..Len(sent) : sent[i].Cmd # "functions"
      ]_vars

\* C21 witness: the RefreshFunc of a Session that held a token returned the
\* error of a transport failure, the call returned it, and only the
\* getAPISession request was sent.
C21_Witness ==
    /\ Returned /\ ex.sv.Authenticator = "Session"
    /\ RefreshFailed /\ ex.refresh.kind = "transport"
    /\ ex.ret = [hasResp |-> FALSE, err |-> "transport"]
    /\ ~ex.gotAuth /\ refreshes = 1
    /\ Len(sent) = 1 /\ sent[1].Cmd = "getAPISession"
    /\ sess.ID = 1 /\ sess.Expires = MaxTime

\* C22: of a call on a Session with RefreshFunc from Login.SessionRefresher,
\* the RefreshFunc is called at most once, and a Session without token is
\* refreshed before the request of the caller's functions is sent.  After a
\* refresh that request is the second of exactly two: the first a
\* getAPISession under the login and no session id, the second under the
\* session id the first returned and no login, sent to the endpoint the
\* first returned.
C22_RefreshThenFunctions ==
    ex.sv.Authenticator = "Session" =>
        /\ refreshes <= 1
        /\ Len(sent) <= refreshes + 1
        /\ refreshes = 1 =>
              /\ sent[1].Cmd = "getAPISession"
              /\ sent[1].Auth = LoginElement
              /\ sent[1].Endpoint = DefaultEndpoint
        /\ FunctionRequestSent =>
              /\ Len(sent) = refreshes + 1
              /\ FunctionRequest.Auth = SessionElement(sess.ID)
              /\ refreshes = 0 => sess.ID = 1
              /\ refreshes = 1 =>
                    /\ ex.refresh.kind = "reply" /\ ~RefreshFailed
                    /\ Len(ex.refresh.r.Results) > 0 =>
                          /\ sess.ID = 2
                          /\ sess.Endpoint = 2
                          /\ FunctionRequest.Endpoint = 2

\* C22 witness: the call has returned a Response after two requests, the
\* second under session id 2 to endpoint 2.
C22_Witness ==
    /\ Returned /\ ex.ret = [hasResp |-> TRUE, err |-> "nil"]
    /\ ex.sv.Authenticator = "Session"
    /\ Len(sent) = 2
    /\ sent[1].Cmd = "getAPISession" /\ sent[1].Auth = LoginElement
    /\ sent[2].Cmd = "functions" /\ sent[2].Auth = SessionElement(2)
    /\ sent[2].Endpoint = 2

(***************************************************************************)
(* The pagination specification: one Reader.GetAll or Query.GetAll call.   *)
(* pg.caller is the caller's Reader or Query, pg.q the method's copy of it *)
(* (rptr in Reader.GetAll, q in Query.GetAll); each page is one step: the  *)
(* Exec call, Response.Decode into resultSlice, and the loop's test.       *)
(***************************************************************************)
PageInit ==
    /\ \E k \in {"Reader", "Query"}, a \in Accumulators :
          /\ acc = a
          /\ \E r \in (IF k = "Reader" THEN Readers ELSE Queries) :
                pg = [NoGetAll EXCEPT !.kind = k, !.caller = r, !.q = r, !.acc0 = a]
    /\ calls = <<>>
    /\ pages = <<>>
    /\ DecIdle /\ SessIdle /\ ExecIdle /\ MapIdle /\ FilterIdle

\* Reader.GetAll: the check of the Reader's XMLName.
ReaderStart ==
    /\ pg.kind = "Reader" /\ pg.pc = "call"
    /\ pg' = IF pg.q.fn \notin {"readByQuery", "readMore"}
             THEN [pg EXCEPT !.pc = "returned", !.err = "GetAll not allowed"]
             ELSE [pg EXCEPT !.pc = "loop"]
    /\ UNCHANGED <<calls, pages, acc, decVars, sessVars, execVars, mapVars, filterVars>>

\* Reader.GetAll: one turn of the loop.
ReaderPage ==
    /\ pg.kind = "Reader" /\ pg.pc = "loop"
    /\ Len(calls) < MaxPages
    /\ calls' = Append(calls, pg.q)
    /\ \E o \in PageOutcomes(Len(calls) + 1) :
          /\ pages' = Append(pages, o)
          /\ IF o.kind # "reply"
                THEN /\ pg' = [pg EXCEPT !.pc = "returned", !.err = o.kind]
                     /\ acc' = acc
                ELSE LET d == ResponseDecode(o.r, <<acc>>)
                         n == NextReader(o.r)
                     IN /\ acc' = d.rv[1]
                        /\ pg' = IF d.ret = "fault" THEN [pg EXCEPT !.pc = "fault"]
                                 ELSE IF d.ret # "nil"
                                     THEN [pg EXCEPT !.pc = "returned", !.err = d.ret]
                                 ELSE IF n.more THEN [pg EXCEPT !.q = n.rptr]
                                 ELSE [pg EXCEPT !.pc = "returned"]
    /\ UNCHANGED <<decVars, sessVars, execVars, mapVars, filterVars>>

\* Query.GetAll: pgsz and numRemaining are set.
QueryStart ==
    /\ pg.kind = "Query" /\ pg.pc = "call"
    /\ pg' = [pg EXCEPT !.pc = "loop"]
    /\ UNCHANGED <<calls, pages, acc, decVars, sessVars, execVars, mapVars, filterVars>>

\* Query.GetAll: one turn of the loop.
QueryPage ==
    /\ pg.kind = "Query" /\ pg.pc = "loop"
    /\ Len(calls) < MaxPages
    /\ calls' = Append(calls, pg.q)
    /\ \E o \in PageOutcomes(Len(calls) + 1) :
          /\ pages' = Append(pages, o)
          /\ IF o.kind # "reply"
                THEN /\ pg' = [pg EXCEPT !.pc = "returned", !.err = o.kind]
                     /\ acc' = acc
                ELSE LET d == ResponseDecode(o.r, <<acc>>) IN
                     /\ acc' = d.rv[1]
                     /\ pg' = IF d.ret = "fault" THEN [pg EXCEPT !.pc = "fault"]
                              ELSE IF d.ret # "nil"
                                  THEN [pg EXCEPT !.pc = "returned", !.err = d.ret]
                              ELSE IF Len(o.r.Results) = 0 \/ ~o.r.Results[1].HasData
                                  THEN [pg EXCEPT !.pc = "returned",
                                                  !.err = "empty result returned"]
                              ELSE IF o.r.Results[1].NumRemaining # 0
                                  THEN [pg EXCEPT !.q = Advance(pg.q, PageSize(pg.caller))]
                              ELSE [pg EXCEPT !.pc = "returned",
                                              !.q = Advance(pg.q, PageSize(pg.caller))]
    /\ UNCHANGED <<decVars, sessVars, execVars, mapVars, filterVars>>

PageNext == ReaderStart \/ ReaderPage \/ QueryStart \/ QueryPage

SpecGetAll == PageInit /\ [][PageNext]_vars

(***************************************************************************)
(* Properties of the pagination loops.                                     *)
(***************************************************************************)
\* Page i came back with one error-free Result whose data decodes.
GoodPage(i) ==
    /\ pages[i].kind = "reply"
    /\ Len(pages[i].r.Results) = 1
    /\ Len(pages[i].r.Results[1].Errors) = 0
    /\ pages[i].r.Results[1].HasData
    /\ ~pages[i].r.Results[1].Payload.bad

Remaining(i) == pages[i].r.Results[1].NumRemaining
Rows(i) == pages[i].r.Results[1].Payload.rows

RECURSIVE RowsUpTo(_)
RowsUpTo(k) == IF k = 0 THEN <<>> ELSE RowsUpTo(k - 1) \o Rows(k)

RECURSIVE RowCount(_)
RowCount(k) == IF k = 0 THEN 0 ELSE RowCount(k - 1) + Len(Rows(k))

\* C9: Reader.GetAll on a readByQuery Reader whose pages all decode: the
\* loop has returned iff the last page reported remaining 0 (so k calls for
\* remaining > 0 on pages 1..k-1 and 0 on page k, none after it); the first
\* call is the caller's Reader, call i+1 a readMore with the resultId of page
\* i; the accumulator holds what it held, then the rows of the pages in
\* page order.
C9_ReaderPages ==
    LET k == Len(pages) IN
    (/\ pg.kind = "Reader" /\ pg.caller.fn = "readByQuery"
     /\ pg.acc0.kind = "slice"
     /\ k > 0 /\ \A i \in 1..k : GoodPage(i)) =>
        /\ Len(calls) = k
        /\ \A i \in 1..(k - 1) : Remaining(i) > 0
        /\ (pg.pc = "returned") <=> (Remaining(k) = 0)
        /\ pg.pc \in {"returned", "loop"} /\ pg.err = "nil"
        /\ calls[1] = pg.caller
        /\ \A i \in 2..k : calls[i] = ReadMore(pages[i - 1].r.Results[1].ResultID)
        /\ pg.pc = "loop" => pg.q = ReadMore(pages[k].r.Results[1].ResultID)
        /\ acc.val = pg.acc0.val \o RowsUpTo(k)
        /\ Len(acc.val) = Len(pg.acc0.val) + RowCount(k)

\* C9 witness: remaining 2 on page 1, 0 on page 2, two calls, and the rows
\* of both pages in the accumulator.
C9_Witness ==
    /\ pg.kind = "Reader" /\ pg.caller.fn = "readByQuery" /\ pg.pc = "returned"
    /\ Len(pages) = 2 /\ GoodPage(1) /\ GoodPage(2)
    /\ Remaining(1) = 2 /\ Remaining(2) = 0
    /\ Len(Rows(1)) = 2 /\ Len(Rows(2)) = 1
    /\ Len(calls) = 2 /\ calls[2].fn = "readMore"
    /\ pg.acc0.val = <<>> /\ Len(acc.val) = 3

\* C10: call k of Query.GetAll carries the caller's Offset plus (k-1) times
\* the page size (PageSz, or 100 when PageSz is 0) and is otherwise the
\* caller's Query; the loop stops after the first page whose remaining count
\* is 0; the caller's Query is left as it was.
C10_QueryOffsets ==
    LET k == Len(pages)
        sz == IF pg.caller.PageSz = 0 THEN 100 ELSE pg.caller.PageSz
    IN
    pg.kind = "Query" =>
        /\ pg.caller \in Queries
        /\ Len(calls) = k
        /\ \A i \in 1..k :
              calls[i] = [pg.caller EXCEPT !.Offset = pg.caller.Offset + (i - 1) * sz]
        /\ \A i \in 1..(k - 1) : GoodPage(i) => Remaining(i) # 0
        /\ (k > 0 /\ GoodPage(k) /\ Remaining(k) = 0) => pg.pc = "returned"
        /\ (pg.pc = "loop" /\ k > 0) => GoodPage(k) \/ pg.acc0.kind = "nil"

\* C10 witness: three calls of a Query with PageSz 0 and Offset 5, the last
\* page reporting remaining 0.
C10_Witness ==
    /\ pg.kind = "Query" /\ pg.pc = "returned" /\ pg.err = "nil"
    /\ pg.caller.PageSz = 0 /\ pg.caller.Offset = 5
    /\ Len(calls) = 3 /\ calls[3].Offset = 205
    /\ GoodPage(3) /\ Remaining(3) = 0

\* The last page came back with one error-free Result.
LastPageErrorFree ==
    /\ Len(pages) > 0
    /\ pages[Len(pages)].kind = "reply"
    /\ Len(pages[Len(pages)].r.Results) = 1
    /\ Len(pages[Len(pages)].r.Results[1].Errors) = 0

LastResult == pages[Len(pages)].r.Results[1]

\* C11: Reader.GetAll ends with success after a page whose error-free Result
\* reports remaining 0 or has no data element: the absent data element is the
\* end of the result set, no failure and no crash.
C11_ReaderEndOfResults ==
    (/\ pg.kind = "Reader" /\ LastPageErrorFree
     /\ \/ ~LastResult.HasData
        \/ LastResult.NumRemaining = 0 /\ ~LastResult.Payload.bad) =>
        pg.pc = "returned" /\ pg.err = "nil"

\* C11, for pages that have a data element: remaining 0 ends the call with
\* success.
C11_RemainingZeroEndsWithSuccess ==
    (/\ pg.kind = "Reader" /\ LastPageErrorFree
     /\ LastResult.HasData
     /\ LastResult.NumRemaining = 0 /\ ~LastResult.Payload.bad) =>
        pg.pc = "returned" /\ pg.err = "nil"

\* C12: Query.GetAll returns the error "empty result returned" after a page
\* without Result or with an error-free Result without data element; a first
\* page with zero rows and remaining 0 is a success that leaves an empty
\* accumulator empty.
C12_QueryEmptyResult ==
    (pg.kind = "Query" /\ Len(pages) > 0 /\ pages[Len(pages)].kind = "reply") =>
        /\ (\/ Len(pages[Len(pages)].r.Results) = 0
            \/ LastPageErrorFree /\ ~LastResult.HasData) =>
               pg.pc = "returned" /\ pg.err = "empty result returned"
        /\ (/\ Len(pages) = 1 /\ GoodPage(1)
            /\ Rows(1) = <<>> /\ Remaining(1) = 0
            /\ pg.acc0 = [kind |-> "slice", val |-> <<>>]) =>
               pg.pc = "returned" /\ pg.err = "nil" /\ acc.val = <<>>

\* C12, for pages whose Result has a data element or is missing.
C12_NoResultIsAnError ==
    (pg.kind = "Query" /\ Len(pages) > 0 /\ pages[Len(pages)].kind = "reply") =>
        /\ Len(pages[Len(pages)].r.Results) = 0 =>
               pg.pc = "returned" /\ pg.err = "empty result returned"
        /\ (/\ Len(pages) = 1 /\ GoodPage(1)
            /\ Rows(1) = <<>> /\ Remaining(1) = 0
            /\ pg.acc0 = [kind |-> "slice", val |-> <<>>]) =>
               pg.pc = "returned" /\ pg.err = "nil" /\ acc.val = <<>>

\* The call for the last page failed, or its decode reported an error.
LastPageFailed ==
    /\ Len(pages) > 0
    /\ \/ pages[Len(pages)].kind # "reply"
       \/ /\ Len(pages[Len(pages)].r.Results) = 1
          /\ \/ Len(LastResult.Errors) > 0
             \/ pg.acc0.kind = "slice" /\ LastResult.HasData /\ LastResult.Payload.bad

\* C13: when the call for page k fails or its decode reports an error, GetAll
\* returns that error and makes no further call, and the accumulator is the
\* slice it was, begun by what it held and the rows of pages 1..k-1 in order.
C13_ErrorKeepsEarlierPages ==
    LET k == Len(pages) IN
    LastPageFailed =>
        /\ pg.pc = "returned"
        /\ pg.err = (IF pages[k].kind # "reply" THEN pages[k].kind ELSE "ResultsError")
        /\ Len(calls) = k
        /\ ~ENABLED PageNext
        /\ acc.kind = pg.acc0.kind
        /\ pg.acc0.kind = "nil" => acc = pg.acc0
        /\ pg.acc0.kind = "slice" =>
              LET kept == pg.acc0.val \o RowsUpTo(k - 1) IN
              /\ Len(acc.val) >= Len(kept)
              /\ SubSeq(acc.val, 1, Len(kept)) = kept

\* C13 witness: Query.GetAll appended the two rows of page 1, the call for
\* page 2 failed in the transport, and the accumulator holds the old row and
\* the two rows of page 1.
C13_Witness ==
    /\ pg.kind = "Query" /\ pg.pc = "returned" /\ pg.err = "transport"
    /\ Len(pages) = 2 /\ GoodPage(1) /\ Len(Rows(1)) = 2
    /\ pages[2].kind = "transport"
    /\ pg.acc0.val = <<OldRow>>
    /\ acc.val = <<OldRow>> \o Rows(1)

(***************************************************************************)
(* The ResultMap's specification: UnmarshalXML decodes an element child by *)
(* child, and ReadArray is called on the decoded map.                      *)
(***************************************************************************)
MapInit ==
    /\ MapIdle
    /\ DecIdle /\ SessIdle /\ ExecIdle /\ PageIdle /\ FilterIdle

\* UnmarshalXML: the next token is a StartElement; rm.newElement(d, t)
NewElement ==
    /\ ~decoded
    /\ Len(doc) < MaxChildren
    /\ \E tag \in Tags : \E s \in Shapes(tag, Len(doc) + 1) :
          /\ doc' = Append(doc, s)
          /\ rm' = newElement(rm, s)
    /\ UNCHANGED <<decoded, ra>>
    /\ UNCHANGED <<decVars, sessVars, execVars, pageVars, filterVars>>

\* UnmarshalXML: the next token is the EndElement; return nil
EndElement ==
    /\ ~decoded
    /\ decoded' = TRUE
    /\ UNCHANGED <<doc, rm, ra>>
    /\ UNCHANGED <<decVars, sessVars, execVars, pageVars, filterVars>>

\* rm.ReadArray(name)
CallReadArray ==
    /\ decoded
    /\ ~ra.called
    /\ \E keys \in Paths :
          ra' = [called |-> TRUE, keys |-> keys, res |-> ReadArray(rm, keys)]
    /\ UNCHANGED <<doc, rm, decoded>>
    /\ UNCHANGED <<decVars, sessVars, execVars, pageVars, filterVars>>

MapNext == NewElement \/ EndElement \/ CallReadArray

SpecResultMap == MapInit /\ [][MapNext]_vars

(***************************************************************************)
(* Properties of the ResultMap.                                            *)
(***************************************************************************)
\* The children of tag t the decoder has met, in document order.
Occurrences(t) == SelectSeq(doc, LAMBDA s : s.tag = t)

HasContent(s) == s.attr # 0 \/ s.text # 0 \/ s.kids # <<>>
TextOnly(s) == s.attr = 0 /\ s.text # 0 /\ s.kids = <<>>
Structured(s) == HasContent(s) /\ ~TextOnly(s)

\* The entries a value holds, one by one.
Items(v) ==
    CASE v.kind = "nil" -> <<>>
      [] v.kind = "string" -> <<v>>
      [] v.kind = "ResultMap" -> <<v>>
      [] v.kind = "[]string" -> [j \in 1..Len(v.val) |-> StringValue(v.val[j])]
      [] v.kind = "[]ResultMap" -> [j \in 1..Len(v.val) |-> NodeValue(v.val[j])]

\* The entry it is the element s: its text when s is text-only, its node.
ItemIs(it, s) ==
    \/ it.kind = "string" /\ TextOnly(s) /\ it.val = s.text
    \/ it.kind = "ResultMap" /\ it.val = UnmarshalXML(s)

IsSequence(v) == v.kind \in {"[]string", "[]ResultMap"}
IsStructured(v) == v.kind \in {"ResultMap", "[]ResultMap"}

\* C23: a tag that occurs n >= 2 times among the children of an element has
\* a sequence of length n as its entry, holding the occurrences in document
\* order.
C23_RepeatsYieldSequence ==
    \A t \in Tags :
        LET occ == Occurrences(t)
        IN  Len(occ) >= 2 =>
                /\ IsSequence(rm[t])
                /\ Len(rm[t].val) = Len(occ)
                /\ \A j \in 1..Len(occ) : ItemIs(Items(rm[t])[j], occ[j])

\* C23, for a tag whose occurrences are all text-only or whose first
\* occurrence is structured: the entry is the sequence of the occurrences.
C23_UniformRepeatsYieldSequence ==
    \A t \in Tags :
        LET occ == Occurrences(t)
        IN  (/\ Len(occ) >= 2
             /\ \/ \A j \in 1..Len(occ) : TextOnly(occ[j])
                \/ Structured(occ[1])) =>
                /\ IsSequence(rm[t])
                /\ Len(rm[t].val) = Len(occ)
                /\ \A j \in 1..Len(occ) : ItemIs(Items(rm[t])[j], occ[j])

\* C24: an entry that holds a ResultMap or a []ResultMap never becomes a
\* string or a []string: an occurrence of its tag, text-only ones included,
\* appends the node of that occurrence, and nothing else changes the entry.
C24_StructuredStaysStructured ==
    [][\A t \in Tags :
          IsStructured(rm[t]) =>
              IF doc' # doc /\ doc'[Len(doc')].tag = t
                  THEN /\ rm'[t].kind = "[]ResultMap"
                       /\ Items(rm'[t]) =
                             Append(Items(rm[t]), NodeValue(UnmarshalXML(doc'[Len(doc')])))
                  ELSE rm'[t].kind = rm[t].kind /\ rm'[t].val = rm[t].val
      ]_vars

\* C24 witness: a structured, a text-only and an empty occurrence of A, in
\* this order, left a sequence of three nodes, the second with the text.
C24_Witness ==
    /\ Len(doc) = 3
    /\ \A j \in 1..3 : doc[j].tag = "A"
    /\ Structured(doc[1]) /\ TextOnly(doc[2]) /\ ~HasContent(doc[3])
    /\ rm["A"].kind = "[]ResultMap" /\ Len(rm["A"].val) = 3
    /\ rm["A"].val[2] = [EmptyMap EXCEPT ![""] = StringValue(2)]
    /\ rm["A"].val[3] = EmptyMap

\* The value a name addresses in m: the walk through single nodes ends at
\* the last segment, or earlier at a value that is no single node.
RECURSIVE Addressed(_, _)
Addressed(m, keys) ==
    LET v == m[Head(keys)]
    IN  IF Len(keys) = 1 \/ v.kind # "ResultMap"
            THEN [v |-> v, left |-> Len(keys) - 1]
        ELSE Addressed(v.val, Tail(keys))

\* C25: ReadArray returns, without error, an empty sequence when the
\* addressed entry or an intermediate one is absent, the one node when the
\* entry is a single node and the stored sequence when it is a sequence of
\* nodes; it returns an error when the entry is a scalar string and when an
\* intermediate segment is a sequence.
C25_ReadArray ==
    ra.called =>
        LET a == Addressed(rm, ra.keys)
        IN  /\ a.v.kind = "nil" => ra.res = ReadResult(FALSE, <<>>)
            /\ (a.left = 0 /\ a.v.kind = "ResultMap") =>
                  ra.res = ReadResult(FALSE, <<a.v.val>>)
            /\ (a.left = 0 /\ a.v.kind = "[]ResultMap") =>
                  ra.res = ReadResult(FALSE, a.v.val)
            /\ (a.left = 0 /\ a.v.kind = "string") => ra.res.err
            /\ (a.left > 0 /\ a.v.kind = "[]ResultMap") => ra.res.err

\* C25 witness: ReadArray("A/B") returned the two B nodes of the single A.
C25_Witness ==
    /\ ra.called /\ ra.keys = <<"A", "B">>
    /\ rm["A"].kind = "ResultMap"
    /\ ~ra.res.err /\ Len(ra.res.val) = 2
    /\ ra.res.val[2][""] = StringValue(ra.res.val[2]["@k"].val)

\* C29: every child element that has text, attributes or children is in its
\* parent's entry for its tag.
C29_NoOccurrenceLost ==
    \A t \in Tags :
        LET occ == Occurrences(t)
        IN  \A j \in 1..Len(occ) :
                HasContent(occ[j]) =>
                    \E i \in 1..Len(Items(rm[t])) : ItemIs(Items(rm[t])[i], occ[j])

\* C29, for a tag of which no text-only occurrence comes before a
\* structured one: no occurrence with content is lost.
C29_NoTextBeforeStructuredNoLoss ==
    \A t \in Tags :
        LET occ == Occurrences(t)
        IN  (\A i, j \in 1..Len(occ) :
                 (i < j /\ TextOnly(occ[i])) => ~Structured(occ[j])) =>
            \A j \in 1..Len(occ) :
                HasContent(occ[j]) =>
                    \E i \in 1..Len(Items(rm[t])) : ItemIs(Items(rm[t])[i], occ[j])

(***************************************************************************)
(* The Filter's specification: a Query's Filter is built by And(), Or()    *)
(* and criteria calls, and the Query is marshalled.                        *)
(***************************************************************************)
FilterInit ==
    /\ flt \in {NilFilter, NewFilter}
    /\ heap = <<>>
    /\ groups = <<>>
    /\ adds = <<>>
    /\ xmlOut = NotMarshalled
    /\ DecIdle /\ SessIdle /\ ExecIdle /\ PageIdle /\ MapIdle

\* f.And(), f.Or() on a Filter: newFilter appends the group to f.Filters and
\* returns the address of the last element of f.Filters.
GroupOnFilter(nm) ==
    /\ ~xmlOut.done
    /\ ~flt.isNil
    /\ Len(groups) < MaxGroups
    /\ LET a == append(heap, flt.Filters, FilterValue(nm, 0, NilSlice))
       IN  /\ heap' = a.heap
           /\ flt' = [flt EXCEPT !.Filters = a.slice]
           /\ groups' = Append(groups, [arr |-> a.slice.arr, idx |-> a.slice.len,
                                        name |-> nm, ofNil |-> FALSE])
    /\ UNCHANGED <<adds, xmlOut>>
    /\ UNCHANGED <<decVars, sessVars, execVars, pageVars, mapVars>>

\* f.And(), f.Or() on a nil *Filter: newFilter returns the address of a
\* Filter that is in no list.
GroupOnNil(nm) ==
    /\ ~xmlOut.done
    /\ flt.isNil
    /\ Len(groups) < MaxGroups
    /\ heap' = Append(heap, <<FilterValue(nm, 0, NilSlice)>>)
    /\ groups' = Append(groups, [arr |-> Len(heap) + 1, idx |-> 1,
                                 name |-> nm, ofNil |-> TRUE])
    /\ UNCHANGED <<flt, adds, xmlOut>>
    /\ UNCHANGED <<decVars, sessVars, execVars, pageVars, mapVars>>

\* A criteria call (EqualTo, In, IsNull, ...) on the group g that And() or
\* Or() returned: add appends the criterion to the Filters of the Filter
\* the pointer addresses.
AddToGroup(g) ==
    /\ ~xmlOut.done
    /\ Len(adds) < MaxCriteria
    /\ LET p == groups[g]
           a == append(heap, heap[p.arr][p.idx].Filters,
                       FilterValue("equalto", Len(adds) + 1, NilSlice))
       IN  /\ heap' = [a.heap EXCEPT ![p.arr][p.idx].Filters = a.slice]
           /\ adds' = Append(adds, [group |-> g, field |-> Len(adds) + 1,
                                    inList |-> ~p.ofNil /\ p.arr = flt.Filters.arr])
    /\ UNCHANGED <<flt, groups, xmlOut>>
    /\ UNCHANGED <<decVars, sessVars, execVars, pageVars, mapVars>>

\* q.Filter = q.Filter.EqualTo(...): add makes a Filter for a nil receiver,
\* appends the criterion to its Filters and returns it.
AddToFilter ==
    /\ ~xmlOut.done
    /\ Len(adds) < MaxCriteria
    /\ LET a == append(heap, flt.Filters,
                       FilterValue("equalto", Len(adds) + 1, NilSlice))
       IN  /\ heap' = a.heap
           /\ flt' = [flt EXCEPT !.isNil = FALSE, !.Filters = a.slice]
    /\ adds' = Append(adds, [group |-> 0, field |-> Len(adds) + 1, inList |-> TRUE])
    /\ UNCHANGED <<groups, xmlOut>>
    /\ UNCHANGED <<decVars, sessVars, execVars, pageVars, mapVars>>

\* xml.Marshal(Query{Filter: f})
Marshal ==
    /\ ~xmlOut.done
    /\ xmlOut' = [done |-> TRUE, els |-> MarshalFilter(flt, heap)]
    /\ UNCHANGED <<flt, heap, groups, adds>>
    /\ UNCHANGED <<decVars, sessVars, execVars, pageVars, mapVars>>

FilterNext ==
    \/ \E nm \in GroupNames : GroupOnFilter(nm) \/ GroupOnNil(nm)
    \/ \E g \in 1..Len(groups) : AddToGroup(g)
    \/ AddToFilter
    \/ Marshal

SpecFilter == FilterInit /\ [][FilterNext]_vars

(***************************************************************************)
(* Properties of the Filter.                                               *)
(***************************************************************************)
\* The tree of the Filter, as xml.Marshal walks it.
FilterTree == MarshalFilters(heap, flt.Filters)

\* The groups in the Filter's list, in order.
GroupsOf(tree) == SelectSeq(tree, LAMBDA e : e.name \in GroupNames)

FieldsOf(tree) == [i \in 1..Len(tree) |-> tree[i].field]

\* The criteria calls made on group g (0 for the Filter itself), in order.
CallsOn(g) ==
    FieldsOf(SelectSeq(adds, LAMBDA c : c.group = g))

\* The criteria calls made on group g while the pointer And() or Or()
\* returned addressed an element of the Filter's list.
CallsInListOn(g) ==
    FieldsOf(SelectSeq(adds, LAMBDA c : c.group = g /\ c.inList))

GroupsOfFilter == \A i \in 1..Len(groups) : ~groups[i].ofNil

\* C26: the groups And() and Or() made are in the Filter's list in creation
\* order, and every criterion added through a returned group is under that
\* group in the Filter's tree, in call order.
C26_CriteriaUnderTheirGroup ==
    GroupsOfFilter =>
        LET gs == GroupsOf(FilterTree)
        IN  /\ Len(gs) = Len(groups)
            /\ \A i \in 1..Len(groups) :
                  /\ gs[i].name = groups[i].name
                  /\ FieldsOf(gs[i].kids) = CallsOn(i)

\* C26, for the criteria calls made before a later append to the Filter's
\* list moved the list: they are under their group, in call order, and the
\* groups are in creation order.
C26_CriteriaBeforeLaterAppend ==
    GroupsOfFilter =>
        LET gs == GroupsOf(FilterTree)
        IN  /\ Len(gs) = Len(groups)
            /\ \A i \in 1..Len(groups) :
                  /\ gs[i].name = groups[i].name
                  /\ FieldsOf(gs[i].kids) = CallsInListOn(i)

\* C27: a Query whose Filter is nil, or a Filter of NewFilter with nothing
\* added, is marshalled without a filter element; a Filter with criteria is
\* marshalled as one filter element with the criteria in insertion order.
C27_EmptyFilterOmitted ==
    xmlOut.done =>
        /\ (flt.isNil \/ (adds = <<>> /\ groups = <<>>)) => xmlOut.els = <<>>
        /\ (groups = <<>> /\ adds # <<>>) =>
              /\ Len(xmlOut.els) = 1
              /\ xmlOut.els[1].name = "filter"
              /\ FieldsOf(xmlOut.els[1].kids) = CallsOn(0)

\* C27, for a nil Filter and for a Filter with criteria of its own: no
\* element, and one filter element with the criteria in insertion order.
C27_NilOmittedCriteriaInOrder ==
    xmlOut.done =>
        /\ flt.isNil => xmlOut.els = <<>>
        /\ (groups = <<>> /\ adds # <<>>) =>
              /\ Len(xmlOut.els) = 1
              /\ xmlOut.els[1].name = "filter"
              /\ FieldsOf(xmlOut.els[1].kids) = CallsOn(0)

====
